---- MODULE Spec2Model ----
(***************************************************************************)
(* State-machine model of the nsw_tas_fuel_station integration:            *)
(*   - NSWFuelCoordinator (custom_components/nsw_fuel_station/             *)
(*     coordinator.py): one refresh is a chain of awaited API calls, one   *)
(*     action per call;                                                    *)
(*   - NSWFuelConfigFlow (custom_components/nsw_fuel_station/              *)
(*     config_flow.py): one action per submitted form.                     *)
(*   - the sensor platform of nsw_fuel_station: the entities it adds and   *)
(*     what they report from the coordinator data;                         *)
(*   - NSWFuelApiClient and NSWFuelCoordinator of nsw_fuel_ui              *)
(*     (config/custom_components/nsw_fuel_ui): one action per awaited      *)
(*     response of a request.                                              *)
(* Python values are modelled as follows: a list is a sequence, a dict is  *)
(* a function, Optional[x] is a sequence of length 0 or 1, a str that the  *)
(* code inspects character by character is a sequence of characters.       *)
(* Coordinates are integers in units of 1e-5 degree.                       *)
(***************************************************************************)
EXTENDS Integers, Sequences, FiniteSets, TLC

\* ------------------------------------------------------------------ const.py
DEFAULT_FUEL_TYPE == "U91"
E10_CODE == "E10"
E10_AVAILABLE_STATES == {"NSW"}
E10_TRUNCATE_LIST == 5
STATION_LIST_LIMIT == 25
DEFAULT_NICKNAME == <<"H", "o", "m", "e">>
\* the location bounds, in units of 1e-5 degree
LAT_CAMERON_CORNER_BOUND == -2899608
LON_CAMERON_CORNER_BOUND == 14100180
LAT_SE_BOUND == -5000000
LON_SE_BOUND == 15400000

\* ------------------------------------------------------------ python helpers
EmptyDict == << >>

\* s[:n]
Take(s, n) == SubSeq(s, 1, IF Len(s) < n THEN Len(s) ELSE n)

Range(s) == {s[i] : i \in DOMAIN s}

\* a variant of DictSet that makes a new dict of the one key
DictOfOne(d, k, v) == [x \in {k} |-> v]

\* d[k] = v on a dict
DictSet(d, k, v) == [x \in (DOMAIN d) \cup {k} |-> IF x = k THEN v ELSE d[x]]

\* ------------------------------------------------------- the external API
\* A Station / Price / StationPrice of the API client library.
Station(code, name, au_state) ==
    [code |-> code, name |-> name, au_state |-> au_state]

Price(fuel_type, price) == [fuel_type |-> fuel_type, price |-> price]

StationPrice(station, fuel_type, price) ==
    [station |-> station, price |-> Price(fuel_type, <<price>>)]

StationA == Station(111, "Ampol Batemans Bay", "NSW")
StationB == Station(222, "Ultra Mogo", "NSW")
StationC == Station(444, "Shell Merimbula", "NSW")
StationD == Station(333, "United Burnie", "TAS")
StationE == Station(555, "Caltex Launceston", "TAS")

\* What an API call does: return a value or raise.
Returns(v) == [exc |-> "none", value |-> v]
Raises(e) == [exc |-> e, value |-> <<>>]
ApiErrors == {Raises("NSWFuelApiClientAuthError"), Raises("NSWFuelApiClientError")}

\* get_fuel_prices_for_station: lists of Price; a price may be null and a
\* fuel type may be empty.
StationPriceLists ==
    { << Price("U91", <<172>>) >>,
      << Price("U91", <<170>>), Price("E10", <<165>>), Price("DL", <<>>),
         Price("", <<150>>) >> }

\* get_fuel_prices_within_radius for U91
U91NearbyLists ==
    { <<>>,
      << StationPrice(StationA, "U91", 170), StationPrice(StationB, "U91", 165),
         StationPrice(StationC, "U91", 168) >>,
      << StationPrice(StationD, "U91", 180), StationPrice(StationE, "U91", 175) >>,
      << StationPrice(StationE, "U91", 177) >> }

\* get_fuel_prices_within_radius for E10; the long list has its cheapest
\* price in sixth place.
E10NearbyLists ==
    { <<>>,
      << StationPrice(StationA, "E10", 168), StationPrice(StationB, "E10", 160) >>,
      << StationPrice(StationA, "E10", 169), StationPrice(StationB, "E10", 167),
         StationPrice(StationC, "E10", 171), StationPrice(StationA, "E10", 166),
         StationPrice(StationB, "E10", 172), StationPrice(StationC, "E10", 150) >> }

\* ------------------------------------------------------------ coordinator
VARIABLES
    config_nicknames,      \* the nicknames argument of NSWFuelCoordinator.__init__
    init_error,            \* the exception __init__ raised, "" for none
    station_keys,          \* NSWFuelCoordinator._station_keys
    nickname_locations,    \* NSWFuelCoordinator._nickname_locations, in dict order
    pc,                    \* new / failed: before and after a failed __init__;
                           \* where _async_update_data is: idle, favorites, u91, e10
    todo_keys,             \* station keys the favorites loop has not fetched yet
    favorites,             \* local favorites of _update_favorite_stations
    nick_idx,              \* position of the cheapest loop in nickname_locations
    default_nearby,        \* local default_nearby of _update_cheapest_stations
    cheapest,              \* local cheapest of _update_cheapest_stations
    outcome,               \* how the last refresh ended, and what it returned
    data,                  \* DataUpdateCoordinator.data (Optional)
    calls                  \* the API calls of the current refresh, with their results

VARIABLES
    hass_config,           \* hass.config latitude / longitude (each Optional)
    entries,               \* the config entries of the domain, in creation order
    flow,                  \* the config flows: flow[f] is one NSWFuelConfigFlow
    last,                  \* the handler that ran last, and the entries before it ran
    advanced_submissions   \* advanced_options forms submitted so far

flowVars == <<hass_config, entries, flow, last, advanced_submissions>>

coordVars == <<config_nicknames, init_error, station_keys, nickname_locations, pc, todo_keys, favorites, nick_idx,
               default_nearby, cheapest, outcome, data, calls>>

\* ------------------------------------------------------------ sensor platform
VARIABLES
    entities               \* the entities async_setup_entry of the sensor platform
                           \* has added (Optional: none before it ran)

sensorVars == <<entities>>

\* ------------------------- the API client and coordinator of nsw_fuel_ui
\* (custom_components/nsw_fuel_ui/api.py and coordinator.py)
VARIABLES
    now,                   \* time.time(), in seconds
    ticks,                 \* how often a clock of the model has advanced
    token,                 \* NSWFuelApiClient._token (Optional)
    token_expiry,          \* NSWFuelApiClient._token_expiry
    api_pc,                \* where each _async_request is: idle, token, data,
                           \* retry_token, retry (the response it awaits)
    api_call,              \* the running or last _async_request of each caller:
                           \* its path, the `now` of its last async_get_token,
                           \* and what it decided, sent and received
    request_result,        \* how the last _async_request of each caller ended
    issued                 \* the access tokens the token endpoint has returned

VARIABLES
    utc_now,               \* datetime.now(UTC), in hours
    last_ref_update,       \* NSWFuelCoordinator._last_ref_update, in hours
    reference_data,        \* NSWFuelCoordinator._reference_data (Optional)
    ui_pc,                 \* where _async_update_data is: idle, reference, prices
    ui_refresh             \* the running or last refresh: its `now`, the
                           \* fetches it called, what the API did, how it
                           \* ended and the state it started from

\* ------------------------- setup and unload of nsw_tas_fuel_station
VARIABLES
    hass_data,             \* the entry ids that are keys of hass.data[DOMAIN]
    entry_state,           \* the state of each config entry in the host
    last_setup             \* the handler of __init__.py that ran last

\* ------------------------- the multi-station coordinator of coordinator.py
\* and the sensor platform of sensor.py
VARIABLES
    self_prices,           \* NSWFuelCoordinator.prices: (station, fuel) -> price
    multi_data,            \* coordinator.data (Optional): StationPriceData
    multi_refresh,         \* the last _async_update_data: what the API
                           \* returned for each station and how it ended
    multi_sensors          \* the sensors async_setup_entry has added
                           \* (Optional: none before it ran)

multiVars == <<self_prices, multi_data, multi_refresh, multi_sensors>>

clientVars == <<now, ticks, token, token_expiry, api_pc, api_call, request_result, issued>>

uiVars == <<utc_now, last_ref_update, reference_data, ui_pc, ui_refresh>>

setupVars == <<hass_data, entry_state, last_setup>>

vars == <<coordVars, flowVars, sensorVars, clientVars, uiVars, setupVars, multiVars>>

\* time.time() when the client is created
StartTime == 100

\* the callers of _async_request that may run at the same time
Calls == {1, 2}

NoCall == [path |-> "", t_now |-> 0, gets |-> <<>>, sent |-> <<>>, answers |-> <<>>]

\* NSWFuelApiClient.__init__
ApiClientInit ==
    /\ now = StartTime
    /\ ticks = 0
    /\ token = <<>>
    /\ token_expiry = 0
    /\ api_pc = [c \in Calls |-> "idle"]
    /\ api_call = [c \in Calls |-> NoCall]
    /\ request_result = [c \in Calls |-> [kind |-> "none"]]
    /\ issued = {}

\* datetime.now(UTC) when the coordinator is created, in hours since 1970
StartHour == 490000
\* datetime(1, 1, 1, tzinfo=UTC), in hours since 1970
FirstHour == -17259888

NoRefresh ==
    [at |-> 0, fetches |-> <<>>, reference |-> <<>>, prices |-> <<>>,
     outcome |-> [kind |-> "none", payload |-> <<>>],
     before |-> [reference_data |-> <<>>, last_ref_update |-> 0]]

\* NSWFuelCoordinator.__init__ of nsw_fuel_ui
UiCoordinatorInit ==
    /\ utc_now = StartHour
    /\ last_ref_update = FirstHour
    /\ reference_data = <<>>
    /\ ui_pc = "idle"
    /\ ui_refresh = NoRefresh

\* the config entries of the host
EntryIds == {1, 2, 3}

NoSetup == [entry |-> 0, handler |-> "", result |-> ""]

\* the host before it has set up an entry
NothingSetUp ==
    /\ hass_data = {}
    /\ entry_state = [e \in EntryIds |-> "not_loaded"]
    /\ last_setup = NoSetup

NoMultiRefresh == [results |-> <<>>, outcome |-> "none"]

\* NSWFuelCoordinator.__init__ of coordinator.py
MultiStationInit ==
    /\ self_prices = EmptyDict
    /\ multi_data = <<>>
    /\ multi_refresh = NoMultiRefresh
    /\ multi_sensors = <<>>

\* A value of a location block: None (also what .get gives for a missing
\* key), an int or float, or a str.
NoneValue == [type |-> "NoneType", value |-> 0]
Number(v) == [type |-> "float", value |-> v]
Text == [type |-> "str", value |-> 0]

\* nickname_data.get("location"): a dict, or something that is not a dict
DictLocation(lat, lon) == [is_dict |-> TRUE, latitude |-> lat, longitude |-> lon]
NotADict == [is_dict |-> FALSE, latitude |-> NoneValue, longitude |-> NoneValue]

LocSydney == DictLocation(Number(-3386880), Number(15120930))
LocHobart == DictLocation(Number(-4288000), Number(14732000))

StationRecord(st, fuel_types) ==
    [station_code |-> st.code, au_state |-> st.au_state, station_name |-> st.name,
     fuel_types |-> fuel_types]

\* The "nicknames" block of a config entry, as a list of (nickname, data) in
\* dict order.
NicknameConfigs ==
    { << [nickname |-> "Home", location |-> LocSydney,
          stations |-> << StationRecord(StationA, <<"U91", "E10">>) >>] >>,
      << [nickname |-> "Home", location |-> LocSydney,
          stations |-> << StationRecord(StationA, <<"U91", "E10">>) >>],
         [nickname |-> "Hobart", location |-> LocHobart,
          stations |-> << StationRecord(StationD, <<"U91">>),
                          StationRecord(StationA, <<"DL">>),
                          StationRecord(StationD, <<"DL">>) >>] >> }

\* nicknames blocks __init__ cannot accept: empty; a location that is not a
\* dict; latitude or longitude missing; latitude or longitude not a number;
\* two defects in one location; a defect in the second nickname; different
\* defects in two nicknames.
MalformedNicknameConfigs ==
    LET nick(name, location) ==
            [nickname |-> name, location |-> location,
             stations |-> << StationRecord(StationA, <<"U91", "E10">>) >>]
        lat == Number(-3386880)
        lon == Number(15120930)
    IN  { <<>>,
          << nick("Home", NotADict) >>,
          << nick("Home", DictLocation(NoneValue, lon)) >>,
          << nick("Home", DictLocation(lat, NoneValue)) >>,
          << nick("Home", DictLocation(Text, lon)) >>,
          << nick("Home", DictLocation(lat, Text)) >>,
          << nick("Home", DictLocation(Text, NoneValue)) >>,
          << nick("Home", LocSydney), nick("Hobart", NotADict) >>,
          << nick("Home", DictLocation(NoneValue, lon)), nick("Hobart", NotADict) >>,
          << nick("Home", DictLocation(lat, Text)), nick("Hobart", DictLocation(lat, NoneValue)) >> }

\* a variant of StationKeysOf that reads the first nickname only
StationKeysOfFirst(nicknames) ==
    IF nicknames = <<>> THEN {}
    ELSE { <<st.station_code, st.au_state>> : st \in Range(nicknames[1].stations) }

\* __init__: the deduplicated station keys.
StationKeysOf(nicknames) ==
    UNION { { <<st.station_code, st.au_state>> : st \in Range(nicknames[i].stations) } :
        i \in DOMAIN nicknames }

\* isinstance(v, (int, float))
IsNumeric(v) == v.type \in {"int", "float"}

\* What the loop body of _extract_nickname_locations raises for one nickname,
\* "none" if it stores the location.
LocationDefect(location) ==
    IF ~location.is_dict THEN "TypeError"
    ELSE IF location.latitude = NoneValue \/ location.longitude = NoneValue
    THEN "ValueError"
    ELSE IF ~IsNumeric(location.latitude) \/ ~IsNumeric(location.longitude)
    THEN "TypeError"
    ELSE "none"

\* a variant of ExtractNicknameLocations without the check of an empty result
ExtractNicknameLocationsOrNone(nicknames) ==
    LET bad == { i \in DOMAIN nicknames : LocationDefect(nicknames[i].location) # "none" }
    IN  IF bad # {}
        THEN Raises(LocationDefect(
                nicknames[CHOOSE i \in bad : \A j \in bad : i <= j].location))
        ELSE Returns([i \in DOMAIN nicknames |->
                        [nickname |-> nicknames[i].nickname,
                         lat |-> nicknames[i].location.latitude.value,
                         lon |-> nicknames[i].location.longitude.value]])

\* _extract_nickname_locations: the locations in dict order, or the exception
\* of the first nickname the loop cannot accept.
ExtractNicknameLocations(nicknames) ==
    LET bad == { i \in DOMAIN nicknames : LocationDefect(nicknames[i].location) # "none" }
    IN  IF bad # {}
        THEN Raises(LocationDefect(
                nicknames[CHOOSE i \in bad : \A j \in bad : i <= j].location))
        ELSE IF nicknames = <<>> THEN Raises("ValueError")
        ELSE Returns([i \in DOMAIN nicknames |->
                        [nickname |-> nicknames[i].nickname,
                         lat |-> nicknames[i].location.latitude.value,
                         lon |-> nicknames[i].location.longitude.value]])

NoOutcome == [kind |-> "none", payload |-> <<>>]

\* a variant of _convert that labels every entry with the default fuel type
ConvertAsDefaultFuel(sp, fuel_type) ==
    [price |-> sp.price.price[1], station_code |-> sp.station.code,
     station_name |-> sp.station.name, au_state |-> sp.station.au_state,
     fuel_type |-> DEFAULT_FUEL_TYPE]

\* _convert
Convert(sp, fuel_type) ==
    [price |-> sp.price.price[1], station_code |-> sp.station.code,
     station_name |-> sp.station.name, au_state |-> sp.station.au_state,
     fuel_type |-> fuel_type]

ConvertAll(sps, fuel_type) == [i \in DOMAIN sps |-> Convert(sps[i], fuel_type)]

\* list.sort(key=price): a stable sort, ascending
RECURSIVE InsertByPrice(_, _)
InsertByPrice(x, s) ==
    IF s = <<>> THEN <<x>>
    ELSE IF s[Len(s)].price <= x.price THEN Append(s, x)
    ELSE Append(InsertByPrice(x, SubSeq(s, 1, Len(s) - 1)), s[Len(s)])

RECURSIVE SortedByPrice(_)
SortedByPrice(s) ==
    IF s = <<>> THEN <<>>
    ELSE InsertByPrice(s[Len(s)], SortedByPrice(SubSeq(s, 1, Len(s) - 1)))

\* a variant of SortByPrice that leaves the list as it is
UnsortedByPrice(s) == s

SortByPrice(s) == SortedByPrice(s)

\* a variant of CheapestOf that sorts by descending price
DearestOf(combined) ==
    LET sorted == SortByPrice(combined)
    IN  Take([i \in DOMAIN sorted |-> sorted[Len(sorted) + 1 - i]], 2)

\* combined.sort(...); combined = combined[:2]
CheapestOf(combined) == Take(SortByPrice(combined), 2)

\* a variant of FavoritePrices without the condition of the comprehension
FavoritePricesUnfiltered(prices) ==
    LET lastOf(ft) == CHOOSE i \in DOMAIN prices :
                        /\ prices[i].fuel_type = ft
                        /\ \A j \in DOMAIN prices : prices[j].fuel_type = ft => j <= i
    IN  [ft \in { prices[i].fuel_type : i \in DOMAIN prices } |-> prices[lastOf(ft)]]

\* the dict comprehension of _update_favorite_stations
FavoritePrices(prices) ==
    LET kept == { i \in DOMAIN prices :
                    prices[i].fuel_type # "" /\ prices[i].price # <<>> }
        lastOf(ft) == CHOOSE i \in kept :
                        /\ prices[i].fuel_type = ft
                        /\ \A j \in kept : prices[j].fuel_type = ft => j <= i
    IN  [ft \in { prices[i].fuel_type : i \in kept } |-> prices[lastOf(ft)]]

\* a variant of Raised with the two except clauses exchanged
RaisedSwapped(exc) ==
    IF exc = "NSWFuelApiClientAuthError" THEN "UpdateFailed" ELSE "ConfigEntryAuthFailed"

\* the except clauses of _async_update_data
Raised(exc) ==
    IF exc = "NSWFuelApiClientAuthError" THEN "ConfigEntryAuthFailed" ELSE "UpdateFailed"

InitCoord ==
    /\ hass_config = [latitude |-> <<>>, longitude |-> <<>>]
    /\ entries = <<>>
    /\ flow = <<>>
    /\ last = <<>>
    /\ advanced_submissions = 0
    /\ \E nicknames \in NicknameConfigs :
        /\ config_nicknames = nicknames
        /\ station_keys = StationKeysOf(nicknames)
        /\ nickname_locations = ExtractNicknameLocations(nicknames).value
    /\ init_error = ""
    /\ pc = "idle"
    /\ todo_keys = {}
    /\ favorites = EmptyDict
    /\ nick_idx = 1
    /\ default_nearby = <<>>
    /\ cheapest = EmptyDict
    /\ outcome = NoOutcome
    /\ data = <<>>
    /\ calls = <<>>
    /\ entities = <<>>
    /\ ApiClientInit
    /\ UiCoordinatorInit
    /\ NothingSetUp
    /\ MultiStationInit

Call(api, target, fuel_type, result) ==
    [api |-> api, target |-> target, fuel_type |-> fuel_type, result |-> result]

\* An API call raised: _async_update_data raises, nothing is returned and the
\* host keeps coordinator.data.
RefreshFails(call) ==
    /\ pc' = "idle"
    /\ calls' = Append(calls, call)
    /\ outcome' = [kind |-> Raised(call.result.exc), payload |-> <<>>]
    /\ UNCHANGED <<config_nicknames, init_error, station_keys, nickname_locations, todo_keys, favorites, nick_idx,
                   default_nearby, cheapest, data, flowVars, sensorVars, clientVars, uiVars, setupVars, multiVars>>

\* The cheapest loop ends an iteration with `new`: next nickname, or return.
CheapestLoopNext(new) ==
    /\ cheapest' = new
    /\ IF nick_idx < Len(nickname_locations)
       THEN /\ pc' = "u91"
            /\ nick_idx' = nick_idx + 1
            /\ UNCHANGED <<outcome, data>>
       ELSE LET payload == [favorites |-> favorites, cheapest |-> new]
            IN  /\ pc' = "idle"
                /\ nick_idx' = nick_idx
                /\ outcome' = [kind |-> "returned", payload |-> <<payload>>]
                /\ data' = <<payload>>

\* a variant of E10Available that takes E10 to be sold in every state
E10AvailableAnywhere(au_state) == TRUE

\* `if state in E10_AVAILABLE_STATES`
E10Available(au_state) == au_state \in E10_AVAILABLE_STATES

\* a variant of WithoutEntry that stores an empty list for the nickname
WithEmptyEntry(stored, nickname) == DictSet(stored, nickname, <<>>)

\* `if not default_nearby: ... continue`: the nickname gets no entry
WithoutEntry(stored, nickname) == stored

\* The host calls _async_update_data.
StartRefresh ==
    /\ pc = "idle"
    /\ pc' = IF station_keys = {} THEN "u91" ELSE "favorites"
    /\ todo_keys' = station_keys
    /\ favorites' = EmptyDict
    /\ nick_idx' = 1
    /\ default_nearby' = <<>>
    /\ cheapest' = EmptyDict
    /\ outcome' = NoOutcome
    /\ calls' = <<>>
    /\ UNCHANGED <<config_nicknames, init_error, station_keys, nickname_locations, data, flowVars, sensorVars, clientVars, uiVars, setupVars, multiVars>>

\* One iteration of the loop of _update_favorite_stations.
FetchFavorite ==
    /\ pc = "favorites"
    /\ \E key \in todo_keys, result \in {Returns(l) : l \in StationPriceLists} \cup ApiErrors :
        LET call == Call("get_fuel_prices_for_station", key, "", result)
        IN  IF result.exc # "none"
            THEN RefreshFails(call)
            ELSE /\ favorites' = DictSet(favorites, key, FavoritePrices(result.value))
                 /\ todo_keys' = todo_keys \ {key}
                 /\ pc' = IF todo_keys' = {} THEN "u91" ELSE "favorites"
                 /\ calls' = Append(calls, call)
                 /\ UNCHANGED <<config_nicknames, init_error, station_keys, nickname_locations, nick_idx,
                                default_nearby, cheapest, outcome, data, flowVars, sensorVars, clientVars, uiVars, setupVars, multiVars>>

\* The U91 query of one iteration of the loop of _update_cheapest_stations.
FetchDefaultNearby ==
    /\ pc = "u91"
    /\ \E result \in {Returns(l) : l \in U91NearbyLists} \cup ApiErrors :
        LET nickname == nickname_locations[nick_idx].nickname
            call == Call("get_fuel_prices_within_radius", nickname, DEFAULT_FUEL_TYPE, result)
        IN  IF result.exc # "none"
            THEN RefreshFails(call)
            ELSE /\ calls' = Append(calls, call)
                 /\ UNCHANGED <<config_nicknames, init_error, station_keys, nickname_locations, todo_keys, favorites,
                                flowVars, sensorVars, clientVars, uiVars, setupVars, multiVars>>
                 /\ IF result.value = <<>>
                    THEN /\ default_nearby' = result.value
                         /\ CheapestLoopNext(WithoutEntry(cheapest, nickname))
                    ELSE IF E10Available(result.value[1].station.au_state)
                    THEN /\ default_nearby' = result.value
                         /\ pc' = "e10"
                         /\ UNCHANGED <<nick_idx, cheapest, outcome, data>>
                    ELSE /\ default_nearby' = result.value
                         /\ CheapestLoopNext(
                                DictSet(cheapest, nickname,
                                    CheapestOf(ConvertAll(result.value, DEFAULT_FUEL_TYPE))))

\* The E10 query of the same iteration.
FetchE10Nearby ==
    /\ pc = "e10"
    /\ \E result \in {Returns(l) : l \in E10NearbyLists} \cup ApiErrors :
        LET nickname == nickname_locations[nick_idx].nickname
            call == Call("get_fuel_prices_within_radius", nickname, E10_CODE, result)
        IN  IF result.exc # "none"
            THEN RefreshFails(call)
            ELSE /\ calls' = Append(calls, call)
                 /\ UNCHANGED <<config_nicknames, init_error, station_keys, nickname_locations, todo_keys, favorites,
                                default_nearby, flowVars, sensorVars, clientVars, uiVars, setupVars, multiVars>>
                 /\ CheapestLoopNext(
                        DictSet(cheapest, nickname,
                            CheapestOf(ConvertAll(default_nearby, DEFAULT_FUEL_TYPE)
                                \o ConvertAll(Take(result.value, E10_TRUNCATE_LIST), E10_CODE))))

NextCoord ==
    \/ StartRefresh
    \/ FetchFavorite
    \/ FetchDefaultNearby
    \/ FetchE10Nearby

SpecCoord == InitCoord /\ [][NextCoord]_vars

\* ---- the coordinator from its construction on
\* Before NSWFuelCoordinator(hass, api, nicknames, scan_interval) is called.
InitNew ==
    /\ hass_config = [latitude |-> <<>>, longitude |-> <<>>]
    /\ entries = <<>>
    /\ flow = <<>>
    /\ last = <<>>
    /\ advanced_submissions = 0
    /\ config_nicknames \in NicknameConfigs \cup MalformedNicknameConfigs
    /\ init_error = ""
    /\ station_keys = {}
    /\ nickname_locations = <<>>
    /\ pc = "new"
    /\ todo_keys = {}
    /\ favorites = EmptyDict
    /\ nick_idx = 1
    /\ default_nearby = <<>>
    /\ cheapest = EmptyDict
    /\ outcome = NoOutcome
    /\ data = <<>>
    /\ calls = <<>>
    /\ entities = <<>>
    /\ ApiClientInit
    /\ UiCoordinatorInit
    /\ NothingSetUp
    /\ MultiStationInit

\* __init__: it raises what _extract_nickname_locations raises, and there is
\* then no coordinator.
Construct ==
    /\ pc = "new"
    /\ LET extracted == ExtractNicknameLocations(config_nicknames)
       IN  IF extracted.exc # "none"
           THEN /\ pc' = "failed"
                /\ init_error' = extracted.exc
                /\ UNCHANGED <<station_keys, nickname_locations>>
           ELSE /\ pc' = "idle"
                /\ station_keys' = StationKeysOf(config_nicknames)
                /\ nickname_locations' = extracted.value
                /\ UNCHANGED init_error
    /\ UNCHANGED <<config_nicknames, todo_keys, favorites, nick_idx, default_nearby,
                   cheapest, outcome, data, calls, flowVars, sensorVars, clientVars, uiVars, setupVars, multiVars>>

\* the nicknames property
NicknamesProperty == [i \in DOMAIN nickname_locations |-> nickname_locations[i].nickname]

NextNew ==
    \/ Construct
    \/ StartRefresh
    \/ FetchFavorite
    \/ FetchDefaultNearby
    \/ FetchE10Nearby

SpecNew == InitNew /\ [][NextNew]_vars

\* ---- the sensor platform: custom_components/nsw_tas_fuel_station/sensor.py
\* station.get("fuel_types", [])
FuelTypesOf(station) ==
    IF "fuel_types" \in DOMAIN station THEN station.fuel_types ELSE <<>>

\* a station of a nickname block without the key "fuel_types"
StationRecordWithoutFuelTypes(st) ==
    [station_code |-> st.code, au_state |-> st.au_state, station_name |-> st.name]

\* The nicknames blocks the sensors are set up from: one with two nicknames,
\* the second without favorite stations, and one with a station whose
\* fuel_types is empty and one whose fuel_types is missing.
SensorNicknameConfigs ==
    { << [nickname |-> "Home", location |-> LocSydney,
          stations |-> << StationRecord(StationA, <<"U91", "DL">>) >>],
         [nickname |-> "Hobart", location |-> LocHobart, stations |-> <<>>] >>,
      << [nickname |-> "Home", location |-> LocSydney,
          stations |-> << StationRecord(StationB, <<"U91">>),
                          StationRecord(StationA, <<>>),
                          StationRecordWithoutFuelTypes(StationB) >>] >> }

\* the lists of a list of lists, joined
RECURSIVE Flatten(_)
Flatten(lists) ==
    IF lists = <<>> THEN <<>> ELSE Flatten(SubSeq(lists, 1, Len(lists) - 1)) \o lists[Len(lists)]

\* FuelPriceSensor(coordinator, nickname, station, fuel_type): the sensor of
\* one favorite station and fuel type, on the device of its nickname
FuelPriceSensor(nickname, station, fuel_type) ==
    [class |-> "FuelPriceSensor", device |-> nickname,
     station_code |-> station.station_code, au_state |-> station.au_state,
     station_name |-> station.station_name, fuel_type |-> fuel_type, rank |-> 0]

\* CheapestFuelPriceSensor(coordinator, nickname, rank, au_state); au_state
\* is "None" for None
CheapestFuelPriceSensor(nickname, rank, au_state) ==
    [class |-> "CheapestFuelPriceSensor", device |-> nickname,
     station_code |-> 0, au_state |-> au_state, station_name |-> "", fuel_type |-> "",
     rank |-> rank]

\* a variant of create_favorite_station_sensors with one sensor per station
CreateFavoriteStationSensorsPerStation(nicknames) ==
    Flatten([i \in DOMAIN nicknames |->
        [j \in DOMAIN nicknames[i].stations |->
            FuelPriceSensor(nicknames[i].nickname, nicknames[i].stations[j], DEFAULT_FUEL_TYPE)]])

\* create_favorite_station_sensors(coordinator, nicknames)
CreateFavoriteStationSensors(nicknames) ==
    Flatten([i \in DOMAIN nicknames |->
        Flatten([j \in DOMAIN nicknames[i].stations |->
            [k \in DOMAIN FuelTypesOf(nicknames[i].stations[j]) |->
                FuelPriceSensor(nicknames[i].nickname, nicknames[i].stations[j],
                                FuelTypesOf(nicknames[i].stations[j])[k])]])])

\* a variant of the nicknames property that lists the nicknames the
\* coordinator has cheapest data for
NicknamesWithData ==
    IF data = <<>> THEN <<>>
    ELSE SelectSeq(NicknamesProperty, LAMBDA n : n \in DOMAIN data[1].cheapest)

\* coordinator.nicknames, as create_cheapest_fuel_sensors reads it
CoordinatorNicknames == NicknamesProperty

\* (coordinator.data or {}).get("cheapest", {}).get(nickname, [])
CheapestList(nickname) ==
    IF data = <<>> THEN <<>>
    ELSE IF nickname \in DOMAIN data[1].cheapest THEN data[1].cheapest[nickname]
    ELSE <<>>

\* the au_state create_cheapest_fuel_sensors hands to the sensor of a rank
StateOfRank(nickname, rank) ==
    IF Len(CheapestList(nickname)) >= rank THEN CheapestList(nickname)[rank].au_state
    ELSE "None"

\* create_cheapest_fuel_sensors(coordinator)
CreateCheapestFuelSensors ==
    Flatten([i \in DOMAIN CoordinatorNicknames |->
        << CheapestFuelPriceSensor(CoordinatorNicknames[i], 1,
                                   StateOfRank(CoordinatorNicknames[i], 1)),
           CheapestFuelPriceSensor(CoordinatorNicknames[i], 2,
                                   StateOfRank(CoordinatorNicknames[i], 2)) >>])

\* a variant of CheapestNativeValue that reads the entry of the other rank
CheapestNativeValueOtherRank(sensor) ==
    IF Len(CheapestList(sensor.device)) < 3 - sensor.rank THEN <<>>
    ELSE << CheapestList(sensor.device)[3 - sensor.rank].price >>

\* CheapestFuelPriceSensor.native_value (Optional)
CheapestNativeValue(sensor) ==
    IF Len(CheapestList(sensor.device)) < sensor.rank THEN <<>>
    ELSE << CheapestList(sensor.device)[sensor.rank].price >>

\* CheapestFuelPriceSensor.extra_state_attributes (Optional)
CheapestAttributes(sensor) ==
    IF Len(CheapestList(sensor.device)) < sensor.rank THEN <<>>
    ELSE LET entry == CheapestList(sensor.device)[sensor.rank]
         IN  << [station_code |-> entry.station_code, station_name |-> entry.station_name,
                 fuel_type |-> entry.fuel_type, price |-> entry.price,
                 rank |-> sensor.rank] >>

\* FuelPriceSensor.native_value (Optional)
FavoriteNativeValue(sensor) ==
    LET key == <<sensor.station_code, sensor.au_state>>
    IN  IF data = <<>> THEN <<>>
        ELSE IF key \notin DOMAIN data[1].favorites THEN <<>>
        ELSE IF sensor.fuel_type \notin DOMAIN data[1].favorites[key] THEN <<>>
        ELSE data[1].favorites[key][sensor.fuel_type].price

\* The coordinator of a config entry whose nicknames block is any of
\* SensorNicknameConfigs, after its construction.
InitSensors ==
    /\ hass_config = [latitude |-> <<>>, longitude |-> <<>>]
    /\ entries = <<>>
    /\ flow = <<>>
    /\ last = <<>>
    /\ advanced_submissions = 0
    /\ \E nicknames \in SensorNicknameConfigs :
        /\ config_nicknames = nicknames
        /\ station_keys = StationKeysOf(nicknames)
        /\ nickname_locations = ExtractNicknameLocations(nicknames).value
    /\ init_error = ""
    /\ pc = "idle"
    /\ todo_keys = {}
    /\ favorites = EmptyDict
    /\ nick_idx = 1
    /\ default_nearby = <<>>
    /\ cheapest = EmptyDict
    /\ outcome = NoOutcome
    /\ data = <<>>
    /\ calls = <<>>
    /\ entities = <<>>
    /\ ApiClientInit
    /\ UiCoordinatorInit
    /\ NothingSetUp
    /\ MultiStationInit

\* async_setup_entry of the sensor platform: it awaits a refresh of the
\* coordinator and, when that raised, raises ConfigEntryNotReady and adds
\* nothing; when the refresh returned it adds the favorite sensors and the
\* cheapest sensors of the entry.
SensorSetupEntry ==
    /\ entities = <<>>
    /\ pc = "idle"
    /\ outcome.kind = "returned"
    /\ entities' = << CreateFavoriteStationSensors(config_nicknames)
                        \o CreateCheapestFuelSensors >>
    /\ UNCHANGED <<coordVars, flowVars, clientVars, uiVars, setupVars, multiVars>>

\* create_favorite_station_sensors and create_cheapest_fuel_sensors called on
\* a coordinator between two refreshes, whatever its data is, as
\* tests/test_sensor.py calls them.
CreateSensors ==
    /\ entities = <<>>
    /\ pc = "idle"
    /\ entities' = << CreateFavoriteStationSensors(config_nicknames)
                        \o CreateCheapestFuelSensors >>
    /\ UNCHANGED <<coordVars, flowVars, clientVars, uiVars, setupVars, multiVars>>

NextSensors ==
    \/ StartRefresh
    \/ FetchFavorite
    \/ FetchDefaultNearby
    \/ FetchE10Nearby
    \/ SensorSetupEntry
    \/ CreateSensors

SpecSensors == InitSensors /\ [][NextSensors]_vars

\* ---- the API client of nsw_fuel_ui: custom_components/nsw_fuel_ui/api.py
HTTP_UNAUTHORIZED == 401
HTTP_OK == 200
\* `now > (self._token_expiry - 60)`
TokenExpiryMargin == 60
\* `result.get("expires_in", 3600)`
DefaultExpiresIn == 3600

\* a clock may advance at most this often
MaxTicks == 2
\* by one second, or by the default lifetime less the margin
TickSteps == {1, DefaultExpiresIn - TokenExpiryMargin}

REFERENCE_ENDPOINT == "/FuelCheckRefData/v2/fuel/lovs"
PRICE_ENDPOINT == "/FuelPriceCheck/v2/fuel/prices/station/{station_code}"

\* What the server answers to a request; status 0 stands for a connection
\* that failed.  access_token and expires_in are Optional: a token response
\* may lack either key.
Answer(status, content_type, access_token, expires_in) ==
    [status |-> status, content_type |-> content_type,
     access_token |-> access_token, expires_in |-> expires_in]

TokenAnswers ==
    { Answer(status, "", <<>>, <<>>) : status \in {0, HTTP_UNAUTHORIZED, 500} }
    \cup { Answer(HTTP_OK, "application/x-www-form-urlencoded", <<"A">>, <<>>) }
    \cup { Answer(HTTP_OK, "application/json", access_token, expires_in) :
            access_token \in {<<>>, <<"">>, <<"A">>, <<"B">>},
            expires_in \in {<<>>, <<61>>} }

DataAnswers ==
    { Answer(status, "application/json", <<>>, <<>>) :
        status \in {0, HTTP_OK, HTTP_UNAUTHORIZED, 500} }

\* the answers while two callers run at the same time
ConcurrentTokenAnswers ==
    { Answer(HTTP_UNAUTHORIZED, "", <<>>, <<>>) }
    \cup { Answer(HTTP_OK, "application/json", access_token, <<>>) :
            access_token \in {<<>>, <<"">>, <<"A">>, <<"B">>} }

ConcurrentDataAnswers ==
    { Answer(status, "application/json", <<>>, <<>>) :
        status \in {HTTP_OK, HTTP_UNAUTHORIZED} }

\* a request the client sent: the token request, or a data request of a
\* path with the token of its Authorization header (Optional)
TokenRequest == [kind |-> "token", path |-> "", bearer |-> <<>>]
DataRequest(path, bearer) == [kind |-> "data", path |-> path, bearer |-> bearer]

\* a variant of TokenMissing that takes any token for one
TokenMissingNever(tok) == FALSE

\* `not token`: None, or an empty string
TokenMissing(tok) == tok = <<>> \/ tok = <<"">>

\* a variant of NeedsToken without the margin
NeedsTokenWhenExpired(cached, expiry, t) ==
    TokenMissing(cached) \/ t > expiry

\* `if not self._token or now > (self._token_expiry - 60)`
NeedsToken(cached, expiry, t) ==
    TokenMissing(cached) \/ t > (expiry - TokenExpiryMargin)

\* What async_get_token raises for a token response, "none" if it stores
\* the token: OSError and a status other than 401 give NSWFuelApiClientError,
\* 401 gives NSWFuelApiClientAuthError, a response without access_token
\* gives NSWFuelApiClientError.  The body is read as JSON whatever the
\* content type is.
TokenError(answer) ==
    IF answer.status = 0 THEN "NSWFuelApiClientError"
    ELSE IF answer.status = HTTP_UNAUTHORIZED THEN "NSWFuelApiClientAuthError"
    ELSE IF answer.status # HTTP_OK THEN "NSWFuelApiClientError"
    ELSE IF answer.access_token = <<>> THEN "NSWFuelApiClientError"
    ELSE "none"

\* `int(result.get("expires_in", 3600))`
ExpiresIn(answer) ==
    IF answer.expires_in = <<>> THEN DefaultExpiresIn ELSE answer.expires_in[1]

\* a variant of CaughtInRequest that lets the exceptions of the client pass
CaughtInRequestPassing(exc) == exc

\* The except clauses of _async_request, for an exception of the client
\* raised inside the try block (by async_get_token, or by line 179): it is
\* no ClientResponseError and no ClientError, so `except Exception` wraps it.
CaughtInRequest(exc) == "NSWFuelApiClientError"

\* a variant of DataError without the test of the status in the except clause
DataErrorGeneric(answer) ==
    IF answer.status = HTTP_OK THEN "none" ELSE "NSWFuelApiClientError"

\* What _async_request raises for the response raise_for_status sees,
\* "none" if it returns the JSON.
DataError(answer) ==
    IF answer.status = HTTP_OK THEN "none"
    ELSE IF answer.status = HTTP_UNAUTHORIZED THEN "NSWFuelApiClientAuthError"
    ELSE "NSWFuelApiClientError"

\* async_get_token at `t` decides and is recorded in the call.
GetTokenRecord(t) ==
    [at |-> t, cached |-> token, expiry |-> token_expiry,
     requested |-> NeedsToken(token, token_expiry, t)]

\* _async_request of caller c returns or raises
RequestEnds(c, kind) ==
    /\ api_pc' = [api_pc EXCEPT ![c] = "idle"]
    /\ request_result' = [request_result EXCEPT ![c] = [kind |-> kind]]

\* _async_request of caller c awaits a response
RequestAwaits(c, what) ==
    /\ api_pc' = [api_pc EXCEPT ![c] = what]
    /\ request_result' = [request_result EXCEPT ![c] = [kind |-> "none"]]

\* async_get_token has returned tok to _async_request: without a token the
\* call raises (line 133, or line 179 inside the try block), else it sends
\* the data request (the first one, or the retry).
Proceed(c, call, tok, first) ==
    IF TokenMissing(tok)
    THEN /\ api_call' = [api_call EXCEPT ![c] = call]
         /\ RequestEnds(c, IF first THEN "NSWFuelApiClientError"
                           ELSE CaughtInRequest("NSWFuelApiClientAuthError"))
    ELSE /\ api_call' = [api_call EXCEPT ![c] =
                            [call EXCEPT !.sent = Append(@, DataRequest(call.path, tok))]]
         /\ RequestAwaits(c, IF first THEN "data" ELSE "retry")

\* The clock advances.
Tick ==
    /\ ticks < MaxTicks
    /\ ticks' = ticks + 1
    /\ \E d \in TickSteps : now' = now + d
    /\ UNCHANGED <<token, token_expiry, api_pc, api_call, request_result, issued,
                   coordVars, flowVars, sensorVars, uiVars, setupVars, multiVars>>

\* async_get_reference_data / async_get_station_price call _async_request,
\* which runs up to its first await: the token request, or with a cached
\* token the data request.
AsyncRequest(c, paths) ==
    /\ api_pc[c] = "idle"
    /\ \E path \in paths :
        LET get == GetTokenRecord(now)
            call == [path |-> path, t_now |-> now, gets |-> <<get>>, sent |-> <<>>,
                     answers |-> <<>>]
        IN  IF get.requested
            THEN /\ api_call' = [api_call EXCEPT ![c] =
                                    [call EXCEPT !.sent = <<TokenRequest>>]]
                 /\ RequestAwaits(c, "token")
            ELSE Proceed(c, call, token, TRUE)
    /\ UNCHANGED <<now, ticks, token, token_expiry, issued,
                   coordVars, flowVars, sensorVars, uiVars, setupVars, multiVars>>

\* The token response arrives: async_get_token raises, or caches the token
\* and returns it to _async_request.
TokenResponse(c, answers) ==
    /\ api_pc[c] \in {"token", "retry_token"}
    /\ \E answer \in answers :
        LET exc == TokenError(answer)
            first == api_pc[c] = "token"
            answered == [api_call[c] EXCEPT !.answers = Append(@, answer)]
        IN  IF exc # "none"
            THEN /\ token' = IF answer.status = HTTP_OK THEN <<>> ELSE token
                 /\ api_call' = [api_call EXCEPT ![c] = answered]
                 /\ RequestEnds(c, IF first THEN exc ELSE CaughtInRequest(exc))
                 /\ UNCHANGED <<token_expiry, issued>>
            ELSE /\ token' = answer.access_token
                 /\ token_expiry' = api_call[c].t_now + ExpiresIn(answer)
                 /\ issued' = issued \cup {answer.access_token}
                 /\ Proceed(c, answered, answer.access_token, first)
    /\ UNCHANGED <<now, ticks, coordVars, flowVars, sensorVars, uiVars, setupVars, multiVars>>

\* The response to the first data request arrives: on 401 the token is
\* dropped and async_get_token runs again, up to its await.
DataResponse(c, answers) ==
    /\ api_pc[c] = "data"
    /\ \E answer \in answers :
        LET answered == [api_call[c] EXCEPT !.answers = Append(@, answer)]
        IN  IF answer.status = HTTP_UNAUTHORIZED
            THEN LET get == [at |-> now, cached |-> <<>>, expiry |-> token_expiry,
                             requested |-> NeedsToken(<<>>, token_expiry, now)]
                     again == [answered EXCEPT !.t_now = now, !.gets = Append(@, get)]
                 IN  /\ token' = <<>>
                     /\ IF get.requested
                        THEN /\ api_call' = [api_call EXCEPT ![c] =
                                    [again EXCEPT !.sent = Append(@, TokenRequest)]]
                             /\ RequestAwaits(c, "retry_token")
                        ELSE Proceed(c, again, <<>>, FALSE)
            ELSE /\ api_call' = [api_call EXCEPT ![c] = answered]
                 /\ RequestEnds(c, IF DataError(answer) = "none" THEN "returned"
                                   ELSE DataError(answer))
                 /\ UNCHANGED token
    /\ UNCHANGED <<now, ticks, token_expiry, issued,
                   coordVars, flowVars, sensorVars, uiVars, setupVars, multiVars>>

\* The response to the retry arrives.
RetryResponse(c, answers) ==
    /\ api_pc[c] = "retry"
    /\ \E answer \in answers :
        /\ api_call' = [api_call EXCEPT ![c] =
                            [api_call[c] EXCEPT !.answers = Append(@, answer)]]
        /\ RequestEnds(c, IF DataError(answer) = "none" THEN "returned"
                          ELSE DataError(answer))
    /\ UNCHANGED <<now, ticks, token, token_expiry, issued,
                   coordVars, flowVars, sensorVars, uiVars, setupVars, multiVars>>

\* The client after its construction; the coordinator of
\* nsw_fuel_station is not in use.
InitApi ==
    /\ hass_config = [latitude |-> <<>>, longitude |-> <<>>]
    /\ entries = <<>>
    /\ flow = <<>>
    /\ last = <<>>
    /\ advanced_submissions = 0
    /\ config_nicknames = <<>>
    /\ init_error = ""
    /\ station_keys = {}
    /\ nickname_locations = <<>>
    /\ pc = "new"
    /\ todo_keys = {}
    /\ favorites = EmptyDict
    /\ nick_idx = 1
    /\ default_nearby = <<>>
    /\ cheapest = EmptyDict
    /\ outcome = NoOutcome
    /\ data = <<>>
    /\ calls = <<>>
    /\ entities = <<>>
    /\ ApiClientInit
    /\ UiCoordinatorInit
    /\ NothingSetUp
    /\ MultiStationInit

\* one caller at a time
NextApi ==
    \/ Tick
    \/ AsyncRequest(1, {REFERENCE_ENDPOINT, PRICE_ENDPOINT})
    \/ TokenResponse(1, TokenAnswers)
    \/ DataResponse(1, DataAnswers)
    \/ RetryResponse(1, DataAnswers)

SpecApi == InitApi /\ [][NextApi]_vars

\* two callers at the same time, one for each endpoint
PathOf(c) == IF c = 1 THEN REFERENCE_ENDPOINT ELSE PRICE_ENDPOINT

NextApiConcurrent ==
    \/ \E c \in Calls : AsyncRequest(c, {PathOf(c)})
    \/ \E c \in Calls : TokenResponse(c, ConcurrentTokenAnswers)
    \/ \E c \in Calls : DataResponse(c, ConcurrentDataAnswers)
    \/ \E c \in Calls : RetryResponse(c, ConcurrentDataAnswers)

SpecApiConcurrent == InitApi /\ [][NextApiConcurrent]_vars

\* ---- the coordinator of nsw_fuel_ui: custom_components/nsw_fuel_ui/coordinator.py
REF_DATA_REFRESH_DAYS == 30
HoursPerDay == 24

\* timedelta.days of b - a, for b >= a
WholeDays(a, b) == (b - a) \div HoursPerDay

\* a variant of NeedsRefUpdate that waits for more than the 30 days
NeedsRefUpdateLater(at) ==
    \/ WholeDays(last_ref_update, at) > REF_DATA_REFRESH_DAYS
    \/ reference_data = <<>>

\* _needs_ref_update(now)
NeedsRefUpdate(at) ==
    \/ WholeDays(last_ref_update, at) >= REF_DATA_REFRESH_DAYS
    \/ reference_data = <<>>

\* datetime.now(UTC) advances by an hour, by 30 days less an hour, by 30 days
HourSteps == {1, REF_DATA_REFRESH_DAYS * HoursPerDay - 1, REF_DATA_REFRESH_DAYS * HoursPerDay}

\* async_get_reference_data / async_get_station_price, as the coordinator
\* sees them
ReferenceResults == { Returns("lovs1"), Returns("lovs2") } \cup ApiErrors
PriceResults == { Returns("prices1"), Returns("prices2") } \cup ApiErrors

\* the except clauses of _async_update_data
UiRaised(exc) ==
    IF exc = "NSWFuelApiClientAuthError" THEN "ConfigEntryAuthFailed" ELSE "UpdateFailed"

UiTick ==
    /\ ticks < MaxTicks
    /\ ticks' = ticks + 1
    /\ \E d \in HourSteps : utc_now' = utc_now + d
    /\ UNCHANGED <<last_ref_update, reference_data, ui_pc, ui_refresh, now, token,
                   token_expiry, api_pc, api_call, request_result, issued,
                   coordVars, flowVars, sensorVars, setupVars, multiVars>>

\* The host calls _async_update_data, which runs up to its first await: the
\* reference fetch, or the price fetch.
UiStartRefresh ==
    /\ ui_pc = "idle"
    /\ ui_refresh' = [NoRefresh EXCEPT
                        !.at = utc_now,
                        !.fetches = IF NeedsRefUpdate(utc_now) THEN <<"reference">>
                                    ELSE <<"prices">>,
                        !.before = [reference_data |-> reference_data,
                                    last_ref_update |-> last_ref_update]]
    /\ ui_pc' = IF NeedsRefUpdate(utc_now) THEN "reference" ELSE "prices"
    /\ UNCHANGED <<utc_now, last_ref_update, reference_data, clientVars,
                   coordVars, flowVars, sensorVars, setupVars, multiVars>>

\* a variant of ReferenceUpdate that stamps the time of a fetch that failed
ReferenceUpdateStamping(result, at) ==
    [reference_data |-> IF result.exc = "none" THEN <<result.value>> ELSE reference_data,
     last_ref_update |-> at]

\* lines 47-48: the two assignments run when the await returns; when it
\* raises neither runs
ReferenceUpdate(result, at) ==
    IF result.exc = "none"
    THEN [reference_data |-> <<result.value>>, last_ref_update |-> at]
    ELSE [reference_data |-> reference_data, last_ref_update |-> last_ref_update]

\* async_get_reference_data returns or raises.
UiReferenceFetched ==
    /\ ui_pc = "reference"
    /\ \E result \in ReferenceResults :
        /\ reference_data' = ReferenceUpdate(result, ui_refresh.at).reference_data
        /\ last_ref_update' = ReferenceUpdate(result, ui_refresh.at).last_ref_update
        /\ IF result.exc = "none"
           THEN /\ ui_refresh' = [ui_refresh EXCEPT !.reference = <<result>>,
                                                   !.fetches = Append(@, "prices")]
                /\ ui_pc' = "prices"
           ELSE /\ ui_refresh' = [ui_refresh EXCEPT
                                   !.reference = <<result>>,
                                   !.outcome = [kind |-> UiRaised(result.exc),
                                                payload |-> <<>>]]
                /\ ui_pc' = "idle"
    /\ UNCHANGED <<utc_now, clientVars, coordVars, flowVars, sensorVars, setupVars, multiVars>>

\* async_get_station_price returns or raises.
UiPricesFetched ==
    /\ ui_pc = "prices"
    /\ \E result \in PriceResults :
        ui_refresh' = [ui_refresh EXCEPT
            !.prices = <<result>>,
            !.outcome =
                IF result.exc = "none"
                THEN [kind |-> "returned",
                      payload |-> << [reference |-> reference_data,
                                      prices |-> result.value] >>]
                ELSE [kind |-> UiRaised(result.exc), payload |-> <<>>]]
    /\ ui_pc' = "idle"
    /\ UNCHANGED <<utc_now, last_ref_update, reference_data, clientVars,
                   coordVars, flowVars, sensorVars, setupVars, multiVars>>

NextUi ==
    \/ UiTick
    \/ UiStartRefresh
    \/ UiReferenceFetched
    \/ UiPricesFetched

SpecUi == InitApi /\ [][NextUi]_vars

\* ---- setup and unload: custom_components/nsw_tas_fuel_station/__init__.py
\* how coordinator.async_config_entry_first_refresh ends
FirstRefreshResults == {"returned", "ConfigEntryNotReady"}

\* the states in which the host calls async_setup_entry
CanSetUp == {"not_loaded", "setup_retry"}

\* async_setup_entry: the coordinator is stored under the entry id (line
\* 52), then refreshed; ConfigEntryNotReady is logged and raised again, and
\* the host will retry the setup.
SetupEntry(e) ==
    /\ entry_state[e] \in CanSetUp
    /\ \E first_refresh \in FirstRefreshResults :
        /\ hass_data' = hass_data \cup {e}
        /\ entry_state' = [entry_state EXCEPT ![e] =
                IF first_refresh = "returned" THEN "loaded" ELSE "setup_retry"]
        /\ last_setup' = [entry |-> e, handler |-> "async_setup_entry",
                          result |-> IF first_refresh = "returned" THEN "True"
                                     ELSE first_refresh]
    /\ UNCHANGED <<coordVars, flowVars, sensorVars, clientVars, uiVars, multiVars>>

\* async_unload_entry of a loaded entry: the coordinator is popped when the
\* platforms unloaded.
UnloadEntry(e) ==
    /\ entry_state[e] = "loaded"
    /\ \E unload_ok \in BOOLEAN :
        /\ hass_data' = IF unload_ok THEN hass_data \ {e} ELSE hass_data
        /\ entry_state' = [entry_state EXCEPT ![e] =
                IF unload_ok THEN "not_loaded" ELSE "failed_unload"]
        /\ last_setup' = [entry |-> e, handler |-> "async_unload_entry",
                          result |-> IF unload_ok THEN "True" ELSE "False"]
    /\ UNCHANGED <<coordVars, flowVars, sensorVars, clientVars, uiVars, multiVars>>

\* async_remove_entry, which the host calls for an entry that is not loaded
\* (it unloads a loaded one first): `.pop(entry.entry_id, None)`.
RemoveEntry(e) ==
    /\ entry_state[e] \in CanSetUp \cup {"failed_unload"}
    /\ hass_data' = hass_data \ {e}
    /\ entry_state' = [entry_state EXCEPT ![e] = "removed"]
    /\ last_setup' = [entry |-> e, handler |-> "async_remove_entry", result |-> "None"]
    /\ UNCHANGED <<coordVars, flowVars, sensorVars, clientVars, uiVars, multiVars>>

NextSetup ==
    \/ \E e \in EntryIds : SetupEntry(e)
    \/ \E e \in EntryIds : UnloadEntry(e)
    \/ \E e \in EntryIds : RemoveEntry(e)

SpecSetup == InitApi /\ [][NextSetup]_vars

\* ------------------------------------------------------- coordinator claims
\* What the API returned to this refresh for a nickname and a fuel type:
\* Optional, empty when that call was not made or raised.
RadiusResult(nickname, fuel_type) ==
    LET hits == { i \in DOMAIN calls :
                    /\ calls[i].api = "get_fuel_prices_within_radius"
                    /\ calls[i].target = nickname
                    /\ calls[i].fuel_type = fuel_type
                    /\ calls[i].result.exc = "none" }
    IN  IF hits = {} THEN <<>> ELSE << calls[CHOOSE i \in hits : TRUE].result.value >>

RefreshNicknames == { nickname_locations[i].nickname : i \in DOMAIN nickname_locations }

\* The candidate set of claim C1, from the API results.
Candidates(nickname) ==
    LET u91 == RadiusResult(nickname, DEFAULT_FUEL_TYPE)[1]
        e10 == RadiusResult(nickname, E10_CODE)
    IN  [i \in DOMAIN u91 |->
            [price |-> u91[i].price.price[1], station_code |-> u91[i].station.code,
             station_name |-> u91[i].station.name, au_state |-> u91[i].station.au_state,
             fuel_type |-> "U91"]]
        \o (IF u91[1].station.au_state \in E10_AVAILABLE_STATES /\ e10 # <<>>
            THEN [i \in 1..(IF Len(e10[1]) < E10_TRUNCATE_LIST THEN Len(e10[1])
                                                               ELSE E10_TRUNCATE_LIST) |->
                    [price |-> e10[1][i].price.price[1],
                     station_code |-> e10[1][i].station.code,
                     station_name |-> e10[1][i].station.name,
                     au_state |-> e10[1][i].station.au_state,
                     fuel_type |-> "E10"]]
            ELSE <<>>)

\* The nickname's iteration of the cheapest loop has run to its end.
IterationDone(nickname) ==
    LET u91 == RadiusResult(nickname, DEFAULT_FUEL_TYPE)
    IN  /\ u91 # <<>>
        /\ u91[1] # <<>>
        /\ \/ u91[1][1].station.au_state \notin E10_AVAILABLE_STATES
           \/ RadiusResult(nickname, E10_CODE) # <<>>

\* C1: for every nickname whose U91 radius query returned a non-empty list,
\* the stored list is the candidate set (all U91 results plus, for a first
\* U91 result in an E10 state, the first 5 E10 results) sorted by ascending
\* price and cut to 2: at most 2 entries, all of them candidates, prices
\* non-decreasing, and no omitted candidate strictly cheaper than an included
\* one. Nicknames whose U91 query returned nothing have no stored list.
C1_CheapestSortedAndCut ==
    \A nickname \in RefreshNicknames :
        /\ nickname \in DOMAIN cheapest <=> IterationDone(nickname)
        /\ nickname \in DOMAIN cheapest =>
            LET stored == cheapest[nickname]
                cands == Candidates(nickname)
            IN  /\ Len(stored) = (IF Len(cands) < 2 THEN Len(cands) ELSE 2)
                /\ \A i \in DOMAIN stored : stored[i] \in Range(cands)
                /\ \A i, j \in DOMAIN stored : i < j => stored[i].price <= stored[j].price
                /\ \E used \in SUBSET (DOMAIN cands) :
                    /\ Cardinality(used) = Len(stored)
                    /\ { cands[k] : k \in used } = Range(stored)
                    /\ \A k \in (DOMAIN cands) \ used : \A i \in DOMAIN stored :
                            cands[k].price >= stored[i].price

\* C1 witness: a stored list cut from more than 5 E10 results, the cheapest
\* of which lies beyond the truncation, merged with unsorted U91 results.
C1_Witness ==
    /\ pc = "idle"
    /\ outcome.kind = "returned"
    /\ "Home" \in DOMAIN cheapest
    /\ RadiusResult("Home", E10_CODE) # <<>>
    /\ Len(RadiusResult("Home", E10_CODE)[1]) > E10_TRUNCATE_LIST
    /\ cheapest["Home"][1].fuel_type = "U91"
    /\ cheapest["Home"][2].fuel_type = "E10"

RaisedCalls == { i \in DOMAIN calls : calls[i].result.exc # "none" }

\* C2: an API call that raises NSWFuelApiClientAuthError ends the refresh
\* with ConfigEntryAuthFailed, any other NSWFuelApiClientError ends it with
\* UpdateFailed; in both cases nothing is returned; a payload is returned
\* only when every API call of the refresh succeeded, and it then holds the
\* favorites and the cheapest lists of that refresh.
C2_RefreshErrorMapping ==
    /\ RaisedCalls # {} =>
        /\ RaisedCalls = {Len(calls)}
        /\ pc = "idle"
        /\ outcome.payload = <<>>
        /\ calls[Len(calls)].result.exc = "NSWFuelApiClientAuthError"
                => outcome.kind = "ConfigEntryAuthFailed"
        /\ calls[Len(calls)].result.exc = "NSWFuelApiClientError"
                => outcome.kind = "UpdateFailed"
    /\ outcome.kind \in {"ConfigEntryAuthFailed", "UpdateFailed"} => RaisedCalls # {}
    /\ outcome.payload # <<>> =>
        /\ outcome.kind = "returned"
        /\ RaisedCalls = {}
        /\ outcome.payload[1] = [favorites |-> favorites, cheapest |-> cheapest]
        /\ DOMAIN outcome.payload[1].favorites = station_keys
    /\ outcome.kind = "returned" => outcome.payload # <<>>

\* C2 witness: the refresh failed on authentication in the cheapest loop,
\* after favorites had been fetched, and returned nothing.
C2_Witness ==
    /\ outcome.kind = "ConfigEntryAuthFailed"
    /\ outcome.payload = <<>>
    /\ DOMAIN favorites = station_keys
    /\ station_keys # {}
    /\ calls[Len(calls)].api = "get_fuel_prices_within_radius"

\* ------------------------------------------------------------ config flow
DOMAIN_NAME == "nsw_tas_fuel_station"

\* the fuel codes of ALL_FUEL_TYPES in the order sorted() gives them
FuelsInSortedOrder ==
    <<"B20", "CNG", "DL", "E10", "E85", "EV", "H2", "LNG", "LPG", "P95", "P98", "PDL", "U91">>

FuelRank(ft) == CHOOSE i \in DOMAIN FuelsInSortedOrder : FuelsInSortedOrder[i] = ft

\* a variant of SortedFuels: sorted(fuels, reverse=True)
RECURSIVE ReverseSortedFuels(_)
ReverseSortedFuels(fuels) ==
    IF fuels = {} THEN <<>>
    ELSE LET most == CHOOSE ft \in fuels : \A other \in fuels : FuelRank(ft) >= FuelRank(other)
         IN  <<most>> \o ReverseSortedFuels(fuels \ {most})

\* sorted(fuels) of a set of fuel codes
RECURSIVE SortedFuels(_)
SortedFuels(fuels) ==
    IF fuels = {} THEN <<>>
    ELSE LET least == CHOOSE ft \in fuels : \A other \in fuels : FuelRank(ft) <= FuelRank(other)
         IN  <<least>> \o SortedFuels(fuels \ {least})

UpperCase == <<"A", "B", "C", "D", "E", "F", "G", "H", "I", "J", "K", "L", "M",
               "N", "O", "P", "Q", "R", "S", "T", "U", "V", "W", "X", "Y", "Z">>
LowerCase == <<"a", "b", "c", "d", "e", "f", "g", "h", "i", "j", "k", "l", "m",
               "n", "o", "p", "q", "r", "s", "t", "u", "v", "w", "x", "y", "z">>
Digits == {"0", "1", "2", "3", "4", "5", "6", "7", "8", "9"}

ToLower(c) ==
    IF c \in Range(UpperCase)
    THEN LowerCase[CHOOSE i \in DOMAIN UpperCase : UpperCase[i] = c]
    ELSE c

\* the character class [A-Za-z0-9_-]
NicknameChars == Range(UpperCase) \cup Range(LowerCase) \cup Digits \cup {"_", "-"}

\* re.match(r"^[A-Za-z0-9_-]+$", nickname), after `not nickname`: one or more
\* characters of the class up to the end of the string; `$` also matches just
\* before a newline that ends the string.
NicknameIsValid(nickname) ==
    LET matched == IF nickname # <<>> /\ nickname[Len(nickname)] = "\n"
                   THEN SubSeq(nickname, 1, Len(nickname) - 1)
                   ELSE nickname
    IN  /\ nickname # <<>>
        /\ matched # <<>>
        /\ \A i \in DOMAIN matched : matched[i] \in NicknameChars

\* slugify(nickname): lower case, every run of other characters becomes one
\* "_", none at either end; "unknown" for an empty slug.
RECURSIVE SlugFrom(_, _)
SlugFrom(chars, i) ==
    IF i > Len(chars) THEN <<>>
    ELSE LET c == ToLower(chars[i])
             word == c \in Range(LowerCase) \cup Digits
             rest == SlugFrom(chars, i + 1)
         IN  IF word THEN <<c>> \o rest
             ELSE IF rest = <<>> \/ rest[1] = "_" THEN rest
             ELSE <<"_">> \o rest

Slugify(text) ==
    LET slug == SlugFrom(text, 1)
        stripped == IF slug # <<>> /\ slug[1] = "_" THEN Tail(slug) ELSE slug
    IN  IF stripped = <<>> THEN <<"unknown">> ELSE stripped

\* unique_id = f"{DOMAIN}_{slugify(nickname)}"
UniqueIdOf(nickname) == <<DOMAIN_NAME, "_">> \o Slugify(nickname)

\* _add_e10_to_u91_if_available
\* a variant of AddE10ToU91IfAvailable that ignores the state and the fuel
AddE10Always(au_state, selected_fuel) ==
    IF selected_fuel = DEFAULT_FUEL_TYPE /\ E10_CODE # selected_fuel
    THEN <<selected_fuel, E10_CODE>>
    ELSE <<selected_fuel>>

AddE10ToU91IfAvailable(au_state, selected_fuel) ==
    IF /\ au_state \in E10_AVAILABLE_STATES
       /\ selected_fuel = DEFAULT_FUEL_TYPE
       /\ E10_CODE \notin Range(<<selected_fuel>>)
    THEN <<selected_fuel, E10_CODE>>
    ELSE <<selected_fuel>>

\* _validate_location: (lat, lon), or ValueError("invalid_coordinates").
\* location is Optional (None, or not a dict); its latitude and longitude are
\* Optional too. cv.latitude and cv.longitude accept -90..90 and -180..180.
\* a variant of ValidateLocation without the bounds of NSW and TAS
ValidateLocationUnbounded(location) ==
    IF location = <<>> THEN Raises("invalid_coordinates")
    ELSE LET lat == location[1].latitude
             lon == location[1].longitude
         IN  IF \/ lat = <<>> \/ lon = <<>>
                THEN Raises("invalid_coordinates")
             ELSE IF \/ lat[1] < -90 * 100000 \/ lat[1] > 90 * 100000
                     \/ lon[1] < -180 * 100000 \/ lon[1] > 180 * 100000
                THEN Raises("invalid_coordinates")
             ELSE Returns(<<lat[1], lon[1]>>)

\* a variant of ValidateLocation whose bounds are exclusive
ValidateLocationExclusive(location) ==
    IF location = <<>> THEN Raises("invalid_coordinates")
    ELSE LET lat == location[1].latitude
             lon == location[1].longitude
         IN  IF \/ lat = <<>> \/ lon = <<>>
                THEN Raises("invalid_coordinates")
             ELSE IF \/ ~(LAT_SE_BOUND < lat[1] /\ lat[1] < LAT_CAMERON_CORNER_BOUND)
                     \/ ~(LON_CAMERON_CORNER_BOUND < lon[1] /\ lon[1] < LON_SE_BOUND)
                THEN Raises("invalid_coordinates")
             ELSE Returns(<<lat[1], lon[1]>>)

ValidateLocation(location) ==
    IF location = <<>> THEN Raises("invalid_coordinates")
    ELSE LET lat == location[1].latitude
             lon == location[1].longitude
         IN  IF \/ lat = <<>> \/ lon = <<>>
                THEN Raises("invalid_coordinates")
             ELSE IF \/ lat[1] < -90 * 100000 \/ lat[1] > 90 * 100000
                     \/ lon[1] < -180 * 100000 \/ lon[1] > 180 * 100000
                THEN Raises("invalid_coordinates")
             ELSE IF \/ ~(LAT_SE_BOUND <= lat[1] /\ lat[1] <= LAT_CAMERON_CORNER_BOUND)
                     \/ ~(LON_CAMERON_CORNER_BOUND <= lon[1] /\ lon[1] <= LON_SE_BOUND)
                THEN Raises("invalid_coordinates")
             ELSE Returns(<<lat[1], lon[1]>>)

\* ---- the inputs of the model
Flows == {1, 2}

Home == DEFAULT_NICKNAME
home == <<"h", "o", "m", "e">>
Work == <<"W", "o", "r", "k">>
NicknameInputs == {Home, home, Work}

\* what the user of flow f types into the user form
Credentials(f) ==
    IF f = 1 THEN { [client_id |-> "id1", client_secret |-> "secret1"] }
    ELSE { [client_id |-> "id2", client_secret |-> "secret2"] }

\* advanced_options forms submitted in one run of the model, over all flows
MaxAdvancedSubmissions == 2

InputLocation(lat, lon) == << [latitude |-> <<lat>>, longitude |-> <<lon>>] >>
InSydney == InputLocation(-3386880, 15120930)
InHobart == InputLocation(-4288000, 14732000)

HomeZones == {InSydney[1]}
LocationInputs == {InHobart}
FuelTypeInputs == {<<"U91">>, <<"DL">>, <<"E10">>}

\* get_fuel_prices_within_radius, as the flow sees it
NearbyStationLists == { <<>>, <<StationA, StationD>> }

NearbyResults(fuel_type) ==
    { Returns([i \in DOMAIN l |-> StationPrice(l[i], fuel_type, 170)]) :
        l \in NearbyStationLists } \cup ApiErrors

\* ---- results of a step (ConfigFlowResult)
NoErrors == [base |-> "", nickname |-> ""]

NoResult ==
    [type |-> "none", step_id |-> "", errors |-> NoErrors, reason |-> "",
     title |-> "", data |-> <<>>, offered |-> <<>>]

\* async_show_form; offered: the station codes of the form's options
ShowForm(step_id, errors, offered) ==
    [NoResult EXCEPT !.type = "FORM", !.step_id = step_id, !.errors = errors,
                     !.offered = offered]

\* async_abort
AbortFlow(reason) == [NoResult EXCEPT !.type = "ABORT", !.reason = reason]

\* async_create_entry
CreateEntryResult(title, entry_data) ==
    [NoResult EXCEPT !.type = "CREATE_ENTRY", !.title = title, !.data = <<entry_data>>]

NoInput ==
    [client_id |-> "", client_secret |-> "",
     selected |-> [advanced |-> FALSE, codes |-> <<>>], nickname |-> <<>>,
     location |-> <<>>, fuel_type |-> <<>>]

\* NSWFuelConfigFlow.__init__
NewFlow ==
    [step |-> "none",
     result |-> NoResult,
     flow_data |-> [client_id |-> "", client_secret |-> "", nickname |-> <<>>,
                    fuel_type |-> "", location |-> <<>>, nicknames |-> EmptyDict,
                    selected |-> [advanced |-> FALSE, codes |-> <<>>]],
     nearby_station_prices |-> <<>>,
     station_lookup |-> EmptyDict]

\* The flow manager: a form keeps the flow open at its step, anything else
\* ends the flow.
After(fl, result) ==
    [fl EXCEPT !.result = result,
               !.step = IF result.type = "FORM" THEN result.step_id ELSE "finished"]

\* ---- async_step_station_select, lines 170-195
DefaultFuel(fl) ==
    (IF fl.flow_data.fuel_type = "" THEN DEFAULT_FUEL_TYPE ELSE fl.flow_data.fuel_type)
        = DEFAULT_FUEL_TYPE

EntryStations(entry) ==
    UNION { Range(entry.data.nicknames[n].stations) : n \in DOMAIN entry.data.nicknames }

ExistingStationCodes(es) ==
    { st.station_code : st \in UNION { EntryStations(es[i]) : i \in DOMAIN es } }

\* a variant of AvailableStations without the filter of the default fuel
AvailableStationsUnfiltered(fl, es) == fl.nearby_station_prices

AvailableStations(fl, es) ==
    LET free(sp) == sp.station.code \notin ExistingStationCodes(es)
    IN  IF DefaultFuel(fl) THEN SelectSeq(fl.nearby_station_prices, free)
        ELSE fl.nearby_station_prices

\* the station codes of _build_station_schema's options, each once
RECURSIVE Dedup(_)
Dedup(s) ==
    IF s = <<>> THEN <<>>
    ELSE LET front == Dedup(SubSeq(s, 1, Len(s) - 1))
         IN  IF s[Len(s)] \in Range(front) THEN front ELSE Append(front, s[Len(s)])

OfferedCodes(stations) == Dedup([i \in DOMAIN stations |-> stations[i].station.code])

\* async_step_station_select(None)
ShowStationSelect(fl, es) ==
    LET available == AvailableStations(fl, es)
    IN  IF DefaultFuel(fl) /\ available = <<>>
        THEN After(fl, AbortFlow("no_available_stations"))
        ELSE After(fl, ShowForm("station_select", NoErrors, OfferedCodes(available)))

\* ---- _get_station_list on a successful call
RECURSIVE StationLookupOf(_)
StationLookupOf(nearby) ==
    IF nearby = <<>> THEN EmptyDict
    ELSE LET st == nearby[Len(nearby)].station
         IN  DictSet(StationLookupOf(SubSeq(nearby, 1, Len(nearby) - 1)), st.code,
                     [station_code |-> st.code, station_name |-> st.name,
                      au_state |-> st.au_state])

GotStationList(fl, nearby) ==
    [fl EXCEPT !.nearby_station_prices = Take(nearby, STATION_LIST_LIMIT),
               !.station_lookup = StationLookupOf(Take(nearby, STATION_LIST_LIMIT))]

\* a variant of LookupErrors with the two except clauses exchanged
LookupErrorsSwapped(exc) ==
    IF exc = "NSWFuelApiClientAuthError" THEN [NoErrors EXCEPT !.base = "connection"]
    ELSE [NoErrors EXCEPT !.base = "auth"]

\* the errors _get_station_list returns for an exception
LookupErrors(exc) ==
    IF exc = "NSWFuelApiClientAuthError" THEN [NoErrors EXCEPT !.base = "auth"]
    ELSE [NoErrors EXCEPT !.base = "connection"]

\* ---- _create_new_config_entry
\* a variant of NewStationRecord that leaves the fuel types empty
NewStationRecordWithoutFuels(lookup, code, selected_fuel) ==
    [station_code |-> code,
     au_state |-> lookup[code].au_state,
     station_name |-> lookup[code].station_name,
     fuel_types |-> <<>>]

NewStationRecord(lookup, code, selected_fuel) ==
    [station_code |-> code,
     au_state |-> lookup[code].au_state,
     station_name |-> lookup[code].station_name,
     fuel_types |-> AddE10ToU91IfAvailable(lookup[code].au_state, selected_fuel)]

\* a variant of NewEntryData that stores every nearby station
NewEntryDataAllNearby(fl, nickname, selected_codes, selected_fuel) ==
    [client_id |-> fl.flow_data.client_id,
     client_secret |-> fl.flow_data.client_secret,
     nicknames |->
        DictSet(EmptyDict, nickname,
            [location |-> fl.flow_data.nicknames[nickname].location,
             stations |-> [i \in DOMAIN fl.nearby_station_prices |->
                            NewStationRecord(fl.station_lookup,
                                             fl.nearby_station_prices[i].station.code,
                                             selected_fuel)]])]

\* a variant of NewEntryData that also copies the nicknames of the flow
NewEntryDataAllNicknames(fl, nickname, selected_codes, selected_fuel) ==
    [client_id |-> fl.flow_data.client_id,
     client_secret |-> fl.flow_data.client_secret,
     nicknames |->
        [n \in DOMAIN fl.flow_data.nicknames |->
            [location |-> fl.flow_data.nicknames[n].location,
             stations |-> [i \in DOMAIN selected_codes |->
                            NewStationRecord(fl.station_lookup, selected_codes[i],
                                             selected_fuel)]]]]

NewEntryData(fl, nickname, selected_codes, selected_fuel) ==
    [client_id |-> fl.flow_data.client_id,
     client_secret |-> fl.flow_data.client_secret,
     nicknames |->
        DictSet(EmptyDict, nickname,
            [location |-> fl.flow_data.nicknames[nickname].location,
             stations |-> [i \in DOMAIN selected_codes |->
                            NewStationRecord(fl.station_lookup, selected_codes[i],
                                             selected_fuel)]])]

\* a variant of UniqueIdConfigured that never finds the unique id
UniqueIdConfiguredNever(es, unique_id) == FALSE

\* _abort_if_unique_id_configured
UniqueIdConfigured(es, unique_id) == \E i \in DOMAIN es : es[i].unique_id = unique_id

\* Returns the flow and the config entries after the call. On CREATE_ENTRY the
\* flow manager adds the entry, with the flow's unique id.
CreateNewConfigEntry(fl, es, nickname, selected_codes, selected_fuel) ==
    IF UniqueIdConfigured(es, UniqueIdOf(nickname))
    THEN [flow |-> After(fl, AbortFlow("already_configured")), entries |-> es]
    ELSE LET entry_data == NewEntryData(fl, nickname, selected_codes, selected_fuel)
         IN  [flow |-> After(fl, CreateEntryResult("NSW Fuel Check", entry_data)),
              entries |-> Append(es, [unique_id |-> UniqueIdOf(nickname),
                                      title |-> "NSW Fuel Check",
                                      data |-> entry_data])]

\* ---- _update_existing_entry
ExistingSensors(existing_stations) ==
    UNION { { <<st.station_code, st.au_state, ft>> : ft \in Range(st.fuel_types) } :
        st \in Range(existing_stations) }

\* a variant of SensorExists that looks at the first selected code only
SensorExistsFirstOnly(existing_stations, lookup, selected_codes, selected_fuel) ==
    <<selected_codes[1], lookup[selected_codes[1]].au_state, selected_fuel>>
        \in ExistingSensors(existing_stations)

SensorExists(existing_stations, lookup, selected_codes, selected_fuel) ==
    \E i \in DOMAIN selected_codes :
        <<selected_codes[i], lookup[selected_codes[i]].au_state, selected_fuel>>
            \in ExistingSensors(existing_stations)

\* a variant of MergedStations that drops the stations already stored
MergedStationsReplacing(existing_stations, lookup, selected_codes, selected_fuel, n) ==
    [i \in 1..n |-> NewStationRecord(lookup, selected_codes[i], selected_fuel)]

\* merged_stations_map after the loop over the first n selected codes, as the
\* list of its values (a dict keeps insertion order).
RECURSIVE MergedStations(_, _, _, _, _)
MergedStations(existing_stations, lookup, selected_codes, selected_fuel, n) ==
    IF n = 0 THEN existing_stations
    ELSE LET merged == MergedStations(existing_stations, lookup, selected_codes,
                                      selected_fuel, n - 1)
             code == selected_codes[n]
             au_state == lookup[code].au_state
             at == { i \in DOMAIN merged :
                        merged[i].station_code = code /\ merged[i].au_state = au_state }
         IN  IF at # {}
             THEN [i \in DOMAIN merged |->
                    IF i \in at
                    THEN [merged[i] EXCEPT !.fuel_types =
                            SortedFuels(Range(merged[i].fuel_types) \cup {selected_fuel})]
                    ELSE merged[i]]
             ELSE Append(merged, NewStationRecord(lookup, code, selected_fuel))

\* a variant of NewData that writes the credentials typed in the flow
NewDataWithFlowCredentials(fl, existing, nickname, merged_stations) ==
    [client_id |-> fl.flow_data.client_id,
     client_secret |-> fl.flow_data.client_secret,
     nicknames |->
        DictSet(existing.nicknames, nickname,
            [location |-> fl.flow_data.nicknames[nickname].location,
             stations |-> merged_stations])]

\* new_data, lines 452-468: the location of the flow if it has one for the
\* nickname, else the stored one
NewData(fl, existing, nickname, merged_stations) ==
    LET nick_location ==
            IF nickname \in DOMAIN fl.flow_data.nicknames
            THEN fl.flow_data.nicknames[nickname].location
            ELSE existing.nicknames[nickname].location
    IN  [client_id |-> existing.client_id,
         client_secret |-> existing.client_secret,
         nicknames |->
            DictSet(existing.nicknames, nickname,
                [location |-> nick_location,
                 stations |-> merged_stations])]

UpdateExistingEntry(fl, es, idx, nickname, selected_codes, selected_fuel, available) ==
    LET existing == es[idx].data
        existing_stations == existing.nicknames[nickname].stations
        new_data ==
            NewData(fl, existing, nickname,
                    MergedStations(existing_stations, fl.station_lookup,
                                   selected_codes, selected_fuel, Len(selected_codes)))
    IN  IF SensorExists(existing_stations, fl.station_lookup, selected_codes, selected_fuel)
        THEN [flow |-> After(fl, ShowForm("station_select",
                                          [NoErrors EXCEPT !.base = "sensor_exists"],
                                          OfferedCodes(available))),
              entries |-> es]
        ELSE [flow |-> After(fl, AbortFlow("updated_existing")),
              entries |-> [es EXCEPT ![idx].data = new_data]]

\* ---- the steps
\* the sub-lists of a list, in its order
RECURSIVE Pick(_, _)
Pick(s, keep) ==
    IF s = <<>> THEN <<>>
    ELSE Pick(SubSeq(s, 1, Len(s) - 1), keep)
            \o (IF Len(s) \in keep THEN <<s[Len(s)]>> ELSE <<>>)

SubListsOf(s) == { Pick(s, keep) : keep \in SUBSET (DOMAIN s) }

StoredLocation(lat_lon) == [latitude |-> lat_lon[1], longitude |-> lat_lon[2]]

\* async_step_user(user_input): `api_result` is what the station lookup does
\* if the step gets to it.
UserStep(fl, es, home_zone, user_input, api_result) ==
    LET fd1 == [fl.flow_data EXCEPT
                    !.client_id = user_input.client_id,
                    !.client_secret = user_input.client_secret,
                    !.nickname = IF @ = <<>> THEN DEFAULT_NICKNAME ELSE @,
                    !.fuel_type = IF @ = "" THEN DEFAULT_FUEL_TYPE ELSE @,
                    !.location = IF @ = <<>> THEN <<home_zone>> ELSE @]
        nickname == fd1.nickname
        validated == ValidateLocation(fd1.location)
        fd2 == [fd1 EXCEPT !.nicknames =
                    DictSet(@, nickname, [location |-> StoredLocation(validated.value)])]
    IN  IF validated.exc # "none"
        THEN After([fl EXCEPT !.flow_data = fd1],
                   ShowForm("advanced_options", [NoErrors EXCEPT !.base = validated.exc],
                            <<>>))
        ELSE IF api_result.exc # "none"
        THEN After([fl EXCEPT !.flow_data = fd2],
                   ShowForm("user", LookupErrors(api_result.exc), <<>>))
        ELSE ShowStationSelect(
                GotStationList([fl EXCEPT !.flow_data = fd2], api_result.value), es)

\* async_step_advanced_options(user_input)
AdvancedOptionsStep(fl, es, user_input, api_result) ==
    LET nickname == user_input.nickname
        fd1 == [fl.flow_data EXCEPT !.nickname = nickname]
        validated == ValidateLocation(user_input.location)
        fuel_type == IF user_input.fuel_type = <<>> THEN DEFAULT_FUEL_TYPE
                     ELSE user_input.fuel_type[1]
        fd2 == [fd1 EXCEPT !.fuel_type = fuel_type,
                           !.nicknames = DictSet(@, nickname,
                                [location |-> StoredLocation(validated.value)])]
    IN  IF ~NicknameIsValid(nickname)
        THEN After(fl, ShowForm("advanced_options",
                                [NoErrors EXCEPT !.nickname = "invalid_nickname"], <<>>))
        ELSE IF validated.exc # "none"
        THEN After([fl EXCEPT !.flow_data = fd1],
                   ShowForm("advanced_options", [NoErrors EXCEPT !.base = validated.exc],
                            <<>>))
        ELSE IF api_result.exc # "none"
        THEN After([fl EXCEPT !.flow_data = fd2],
                   ShowForm("advanced_options", LookupErrors(api_result.exc), <<>>))
        ELSE ShowStationSelect(
                GotStationList([fl EXCEPT !.flow_data = fd2], api_result.value), es)

\* a variant of AdvancedOnly that takes the marker wherever it is in the list
AdvancedAnywhere(selected) == selected.advanced

\* `if selected_codes_str == ["__advanced__"]`
AdvancedOnly(selected) == selected.advanced /\ selected.codes = <<>>

\* a variant of NothingSelected that lets an empty selection through
NothingSelectedNever(selected_codes) == FALSE

\* `if not selected_codes`
NothingSelected(selected_codes) == selected_codes = <<>>

\* The entry the selection will update: the first entry that holds the nickname.
UpdatingEntry(es, nickname) ==
    LET holding == { i \in DOMAIN es : nickname \in DOMAIN es[i].data.nicknames }
    IN  IF holding = {} THEN 0 ELSE CHOOSE i \in holding : \A j \in holding : i <= j

\* async_step_station_select(user_input); user_input.selected is the submitted
\* list: whether it holds "__advanced__", and its station codes. Returns the
\* flow and the config entries after the step.
StationSelectStep(fl, es, user_input) ==
    LET available == AvailableStations(fl, es)
        selected_codes == user_input.selected.codes
        seen == fl
        fd == [fl.flow_data EXCEPT !.selected = user_input.selected]
        chosen == [fl EXCEPT !.flow_data = fd]
        nickname == fd.nickname
        selected_fuel == fd.fuel_type
        updating_entry == UpdatingEntry(es, nickname)
    IN  IF DefaultFuel(fl) /\ available = <<>>
        THEN [flow |-> After(seen, AbortFlow("no_available_stations")), entries |-> es]
        ELSE IF AdvancedOnly(user_input.selected)
        THEN [flow |-> After(seen, ShowForm("advanced_options", NoErrors, <<>>)),
              entries |-> es]
        ELSE IF NothingSelected(selected_codes)
        THEN [flow |-> After(seen, ShowForm("station_select",
                                            [NoErrors EXCEPT !.base = "no_stations"],
                                            OfferedCodes(available))),
              entries |-> es]
        ELSE IF updating_entry = 0
        THEN CreateNewConfigEntry(chosen, es, nickname, selected_codes, selected_fuel)
        ELSE UpdateExistingEntry(chosen, es, updating_entry, nickname, selected_codes,
                                 selected_fuel, available)

\* The station lookup is reached in the user step / the advanced step.
UserStepLooksUp(fl, home_zone) ==
    ValidateLocation(IF fl.flow_data.location = <<>> THEN <<home_zone>>
                     ELSE fl.flow_data.location).exc = "none"

AdvancedOptionsStepLooksUp(user_input) ==
    NicknameIsValid(user_input.nickname) /\ ValidateLocation(user_input.location).exc = "none"

\* ---- the actions of the flows
\* `last` records the handler that ran: its flow, its step, what was
\* submitted, what the station lookup did (Optional: empty when the handler
\* made no lookup) and the config entries as they were before.
Ran(f, step, user_input, api) ==
    last' = [flow |-> f, step |-> step, input |-> user_input, api |-> api,
             entries |-> entries]

NoHandler ==
    [flow |-> 0, step |-> "", input |-> NoInput, api |-> <<>>, entries |-> <<>>]

\* the flows whose user opens the advanced options
AdvancedFlows == {2}

\* flow.async_init: async_step_user(None) shows the user form
FlowInit(f) ==
    /\ flow[f].step = "none"
    /\ flow' = [flow EXCEPT ![f] = After(NewFlow, ShowForm("user", NoErrors, <<>>))]
    /\ Ran(f, "init", NoInput, <<>>)
    /\ UNCHANGED <<hass_config, entries, advanced_submissions, coordVars, sensorVars, clientVars, uiVars, setupVars, multiVars>>

SubmitUser(f) ==
    /\ flow[f].step = "user"
    /\ \E user_input \in Credentials(f), api_result \in NearbyResults(DEFAULT_FUEL_TYPE) :
        /\ flow' = [flow EXCEPT ![f] = UserStep(flow[f], entries, hass_config, user_input,
                                                api_result)]
        /\ Ran(f, "user",
               [NoInput EXCEPT !.client_id = user_input.client_id,
                               !.client_secret = user_input.client_secret],
               IF UserStepLooksUp(flow[f], hass_config) THEN <<api_result>> ELSE <<>>)
    /\ UNCHANGED <<hass_config, entries, advanced_submissions, coordVars, sensorVars, clientVars, uiVars, setupVars, multiVars>>

SubmitAdvancedOptions(f) ==
    /\ flow[f].step = "advanced_options"
    /\ f \in AdvancedFlows
    /\ advanced_submissions < MaxAdvancedSubmissions
    /\ advanced_submissions' = advanced_submissions + 1
    /\ \E nickname \in NicknameInputs, location \in LocationInputs,
          fuel_type \in FuelTypeInputs :
        \E api_result \in NearbyResults(IF fuel_type = <<>> THEN DEFAULT_FUEL_TYPE
                                        ELSE fuel_type[1]) :
            LET user_input == [NoInput EXCEPT !.nickname = nickname,
                                              !.location = location,
                                              !.fuel_type = fuel_type]
            IN  /\ flow' = [flow EXCEPT ![f] =
                            AdvancedOptionsStep(flow[f], entries, user_input, api_result)]
                /\ Ran(f, "advanced_options", user_input,
                       IF AdvancedOptionsStepLooksUp(user_input) THEN <<api_result>>
                       ELSE <<>>)
    /\ UNCHANGED <<hass_config, entries, coordVars, sensorVars, clientVars, uiVars, setupVars, multiVars>>

SubmitStationSelect(f) ==
    /\ flow[f].step = "station_select"
    /\ \E advanced \in (IF f \in AdvancedFlows THEN BOOLEAN ELSE {FALSE}),
          codes \in SubListsOf(flow[f].result.offered) :
        LET user_input == [NoInput EXCEPT !.selected =
                                [advanced |-> advanced, codes |-> codes]]
            after == StationSelectStep(flow[f], entries, user_input)
        IN  /\ flow' = [flow EXCEPT ![f] = after.flow]
            /\ entries' = after.entries
            /\ Ran(f, "station_select", user_input, <<>>)
    /\ UNCHANGED <<hass_config, advanced_submissions, coordVars, sensorVars, clientVars, uiVars, setupVars, multiVars>>

Init ==
    /\ hass_config \in HomeZones
    /\ entries = <<>>
    /\ flow = [f \in Flows |-> NewFlow]
    /\ last = NoHandler
    /\ advanced_submissions = 0
    /\ config_nicknames = <<>>
    /\ init_error = ""
    /\ station_keys = {}
    /\ nickname_locations = <<>>
    /\ pc = "idle"
    /\ todo_keys = {}
    /\ favorites = EmptyDict
    /\ nick_idx = 1
    /\ default_nearby = <<>>
    /\ cheapest = EmptyDict
    /\ outcome = NoOutcome
    /\ data = <<>>
    /\ calls = <<>>
    /\ entities = <<>>
    /\ ApiClientInit
    /\ UiCoordinatorInit
    /\ NothingSetUp
    /\ MultiStationInit

Next ==
    \/ \E f \in Flows : FlowInit(f)
    \/ \E f \in Flows : SubmitUser(f)
    \/ \E f \in Flows : SubmitStationSelect(f)
    \/ \E f \in Flows : SubmitAdvancedOptions(f)

Spec == Init /\ [][Next]_vars

\* ------------------------------------------------------- config flow claims
\* The handler that ran last, its flow and its result.
HandlerRan(step) == last.flow # 0 /\ last.step = step
LastFlow == flow[last.flow]
LastResult == flow[last.flow].result

\* A station selection with at least one station code was submitted.
SelectionSubmitted == HandlerRan("station_select") /\ last.input.selected.codes # <<>>

SubmittedCodes == last.input.selected.codes
SubmittedNickname == flow[last.flow].flow_data.nickname
SubmittedFuel == flow[last.flow].flow_data.fuel_type

\* The stations stored under a nickname in a list of entries.
StoredUnder(es, nickname) ==
    UNION { Range(es[i].data.nicknames[nickname].stations) :
            i \in { k \in DOMAIN es : nickname \in DOMAIN es[k].data.nicknames } }

NicknameInEntries(es, nickname) ==
    \E i \in DOMAIN es : nickname \in DOMAIN es[i].data.nicknames

\* Every station code in a list of entries.
StoredCodes(es) ==
    UNION { { st.station_code : st \in Range(es[i].data.nicknames[n].stations) } :
            <<i, n>> \in { <<k, m>> \in (DOMAIN es) \X {Home, home, Work} :
                            m \in DOMAIN es[k].data.nicknames } }

\* The flow asks for the default fuel and none of its nearby stations is free.
NoneFree(fl, es) ==
    /\ fl.flow_data.fuel_type \in {"", DEFAULT_FUEL_TYPE}
    /\ \A i \in DOMAIN fl.nearby_station_prices :
            fl.nearby_station_prices[i].station.code \in StoredCodes(es)

\* The flow of the last handler never left the default path.
OnDefaultPath ==
    /\ last.flow # 0
    /\ DOMAIN flow[last.flow].flow_data.nicknames = {Home}
    /\ flow[last.flow].flow_data.nickname = Home
    /\ flow[last.flow].flow_data.fuel_type = DEFAULT_FUEL_TYPE
    /\ flow[last.flow].flow_data.nicknames[Home].location = StoredLocation(
            <<hass_config.latitude[1], hass_config.longitude[1]>>)

\* The entry data C3 describes: the credentials, exactly the nickname Home
\* with the validated home location, one station record per selected code.
HappyPathCreated ==
    /\ LastResult.type = "CREATE_ENTRY"
    /\ LastResult.title = "NSW Fuel Check"
    /\ LET entry_data == LastResult.data[1]
       IN  /\ entry_data.client_id = LastFlow.flow_data.client_id
           /\ entry_data.client_secret = LastFlow.flow_data.client_secret
           /\ entry_data.client_id \in { c.client_id : c \in Credentials(last.flow) }
           /\ DOMAIN entry_data.nicknames = {Home}
           /\ entry_data.nicknames[Home].location =
                StoredLocation(<<hass_config.latitude[1], hass_config.longitude[1]>>)
           /\ Len(entry_data.nicknames[Home].stations) = Len(SubmittedCodes)
           /\ \A i \in DOMAIN SubmittedCodes :
                LET st == entry_data.nicknames[Home].stations[i]
                    sp == CHOOSE sp \in Range(LastFlow.nearby_station_prices) :
                            sp.station.code = SubmittedCodes[i]
                IN  /\ st.station_code = SubmittedCodes[i]
                    /\ st.au_state = sp.station.au_state
                    /\ st.station_name = sp.station.name
                    /\ st.fuel_types # <<>>
           /\ entries = Append(last.entries,
                               [unique_id |-> UniqueIdOf(Home), title |-> "NSW Fuel Check",
                                data |-> entry_data])

\* C3 as stated: a successful station lookup in the user step shows the
\* station_select form, and a non-empty selection for a nickname that is in
\* no existing entry ends the flow with CREATE_ENTRY.
C3_AsStated ==
    /\ (HandlerRan("user") /\ last.api # <<>> /\ last.api[1].exc = "none")
        => (LastResult.type = "FORM" /\ LastResult.step_id = "station_select")
    /\ (SelectionSubmitted /\ OnDefaultPath /\ ~NicknameInEntries(last.entries, Home))
        => HappyPathCreated

\* C3, amended: the station_select form is shown when the lookup returned at
\* least one station whose code is in no entry; the selection ends with
\* CREATE_ENTRY 'NSW Fuel Check' (credentials, exactly the nickname Home with
\* the validated home location, one station record per selected code) when
\* Home is in no entry, no entry has the unique id of Home, and a nearby
\* station is still in no entry.
C3_HappyPath ==
    /\ (/\ HandlerRan("user") /\ last.api # <<>> /\ last.api[1].exc = "none"
        /\ \E i \in DOMAIN last.api[1].value :
                last.api[1].value[i].station.code \notin StoredCodes(last.entries))
        => /\ LastResult.type = "FORM"
           /\ LastResult.step_id = "station_select"
           /\ LastResult.errors = NoErrors
           /\ LastFlow.step = "station_select"
    /\ (/\ SelectionSubmitted /\ OnDefaultPath
        /\ ~NicknameInEntries(last.entries, Home)
        /\ \A i \in DOMAIN last.entries : last.entries[i].unique_id # UniqueIdOf(Home)
        /\ ~NoneFree(LastFlow, last.entries))
        => HappyPathCreated /\ LastFlow.step = "finished"

\* C3 witness: the default path ended with an entry for one of two offered stations.
C3_Witness ==
    /\ SelectionSubmitted
    /\ OnDefaultPath
    /\ LastResult.type = "CREATE_ENTRY"
    /\ Len(SubmittedCodes) = 1
    /\ Len(LastFlow.nearby_station_prices) = 2
    /\ Len(entries) = 1

\* The list of stations stored under the submitted nickname, in the entry
\* that held it before the handler ran.
HoldingEntry == CHOOSE i \in DOMAIN last.entries :
                    SubmittedNickname \in DOMAIN last.entries[i].data.nicknames
StationsBefore == last.entries[HoldingEntry].data.nicknames[SubmittedNickname].stations
StationsAfter == entries[HoldingEntry].data.nicknames[SubmittedNickname].stations

SubmittedKeys ==
    { <<SubmittedCodes[i], LastFlow.station_lookup[SubmittedCodes[i]].au_state>> :
        i \in DOMAIN SubmittedCodes }

KeyOf(st) == <<st.station_code, st.au_state>>

\* A selected station already has the selected fuel type under the nickname.
SelectedSensorStored ==
    \E st \in Range(StationsBefore) :
        KeyOf(st) \in SubmittedKeys /\ SubmittedFuel \in Range(st.fuel_types)

UpdatedInPlace ==
    /\ LastResult.type = "ABORT"
    /\ LastResult.reason = "updated_existing"
    /\ Len(entries) = Len(last.entries)
    /\ \A st \in Range(StationsBefore) : \E kept \in Range(StationsAfter) :
            KeyOf(kept) = KeyOf(st)
    /\ \A key \in SubmittedKeys : \E st \in Range(StationsAfter) : KeyOf(st) = key

\* C4 as stated: a selection for a nickname that is in an entry always
\* updates that entry and aborts with updated_existing.
C4_AsStated ==
    (SelectionSubmitted /\ NicknameInEntries(last.entries, SubmittedNickname))
        => UpdatedInPlace

\* C4, amended: a selection for a nickname that is in an entry never creates
\* an entry and loses no station stored under the nickname; the entry is
\* updated in place, with ABORT updated_existing and every selected station
\* stored, unless the flow aborts with no_available_stations (default fuel,
\* every nearby station in some entry) or a selected station already has the
\* selected fuel type (sensor_exists); in these two cases nothing changes.
C4_UpdateInPlace ==
    (SelectionSubmitted /\ NicknameInEntries(last.entries, SubmittedNickname))
        => /\ LastResult.type # "CREATE_ENTRY"
           /\ Len(entries) = Len(last.entries)
           /\ \A st \in Range(StationsBefore) : \E kept \in Range(StationsAfter) :
                    KeyOf(kept) = KeyOf(st)
           /\ IF NoneFree(LastFlow, last.entries) \/ SelectedSensorStored
              THEN LastResult.reason # "updated_existing" /\ entries = last.entries
              ELSE UpdatedInPlace

\* C4 witness: a station was added to a nickname that had one station.
C4_Witness ==
    /\ SelectionSubmitted
    /\ NicknameInEntries(last.entries, SubmittedNickname)
    /\ LastResult.reason = "updated_existing"
    /\ Len(StationsBefore) = 1
    /\ Len(StationsAfter) = 2

\* A new, separate entry for the submitted nickname alone.
CreatedSeparateEntry ==
    /\ LastResult.type = "CREATE_ENTRY"
    /\ Len(entries) = Len(last.entries) + 1
    /\ SubSeq(entries, 1, Len(last.entries)) = last.entries
    /\ LET created == entries[Len(entries)].data
       IN  /\ LastResult.data = <<created>>
           /\ DOMAIN created.nicknames = {SubmittedNickname}
           /\ { KeyOf(st) : st \in Range(created.nicknames[SubmittedNickname].stations) }
                = SubmittedKeys
           /\ Len(created.nicknames[SubmittedNickname].stations) = Len(SubmittedCodes)

\* C5 as stated: a selection for a nickname that is in no entry always
\* creates a new entry.
C5_AsStated ==
    (SelectionSubmitted /\ ~NicknameInEntries(last.entries, SubmittedNickname))
        => CreatedSeparateEntry

\* C5, amended: a selection for a nickname that is in no entry creates a new,
\* separate entry holding only that nickname and the selected stations, and
\* leaves the existing entries unchanged, provided no entry has the unique id
\* of the nickname and (for the default fuel) a nearby station is still in no
\* entry; otherwise the flow aborts and nothing changes.
C5_SeparateEntries ==
    (SelectionSubmitted /\ ~NicknameInEntries(last.entries, SubmittedNickname))
        => IF /\ \A i \in DOMAIN last.entries :
                    last.entries[i].unique_id # UniqueIdOf(SubmittedNickname)
              /\ ~NoneFree(LastFlow, last.entries)
           THEN CreatedSeparateEntry
           ELSE LastResult.type = "ABORT" /\ entries = last.entries

\* C5 witness: Work was created beside Home; each entry holds its own nickname.
C5_Witness ==
    /\ SelectionSubmitted
    /\ LastResult.type = "CREATE_ENTRY"
    /\ Len(entries) = 2
    /\ DOMAIN entries[1].data.nicknames = {Home}
    /\ DOMAIN entries[2].data.nicknames = {Work}

\* C6 as stated: a selected station that already has the selected fuel type
\* always gives the sensor_exists form.
C6_AsStated ==
    (/\ SelectionSubmitted /\ NicknameInEntries(last.entries, SubmittedNickname)
     /\ SelectedSensorStored)
        => /\ LastResult.type = "FORM"
           /\ LastResult.step_id = "station_select"
           /\ LastResult.errors.base = "sensor_exists"
           /\ entries = last.entries

\* C6, amended: if a selected station already has the selected fuel type
\* under the nickname, the entries are left completely unchanged, and the
\* station_select form is shown again with errors.base = 'sensor_exists',
\* unless the fuel is the default and every nearby station is in some entry:
\* the flow then aborts with no_available_stations.
C6_SensorExists ==
    (/\ SelectionSubmitted /\ NicknameInEntries(last.entries, SubmittedNickname)
     /\ SelectedSensorStored)
        => /\ entries = last.entries
           /\ IF NoneFree(LastFlow, last.entries)
              THEN LastResult.type = "ABORT" /\ LastResult.reason = "no_available_stations"
              ELSE /\ LastResult.type = "FORM"
                   /\ LastResult.step_id = "station_select"
                   /\ LastResult.errors.base = "sensor_exists"
                   /\ LastFlow.step = "station_select"

\* C6 witness: sensor_exists for a selection of two stations, one of them new
\* to the nickname: the new one was not merged.
C6_Witness ==
    /\ SelectionSubmitted
    /\ LastResult.errors.base = "sensor_exists"
    /\ Len(SubmittedCodes) = 2
    /\ Len(StationsBefore) = 1
    /\ entries = last.entries

\* The last handler went through the station filter of station_select:
\* it was station_select itself, or a step that ended by entering it.
FilterRan ==
    /\ last.flow # 0
    /\ \/ last.step = "station_select"
       \/ LastResult.type = "FORM" /\ LastResult.step_id = "station_select"
       \/ LastResult.type = "ABORT" /\ LastResult.reason = "no_available_stations"

AsksDefaultFuel == LastFlow.flow_data.fuel_type \in {"", DEFAULT_FUEL_TYPE}

NearbyCodes ==
    [i \in DOMAIN LastFlow.nearby_station_prices |->
        LastFlow.nearby_station_prices[i].station.code]

\* The codes of a list, without the codes of a set, each once, in order.
RECURSIVE Without(_, _)
Without(codes, stored) ==
    IF codes = <<>> THEN <<>>
    ELSE LET front == Without(SubSeq(codes, 1, Len(codes) - 1), stored)
             code == codes[Len(codes)]
         IN  IF code \in stored \/ code \in Range(front) THEN front
             ELSE Append(front, code)

\* C7: with the default fuel type the station_select form offers exactly the
\* nearby stations whose code is stored in no entry, and the flow aborts with
\* no_available_stations when none remain; with another fuel type it offers
\* every nearby station and never aborts with that reason.
C7_OfferedStations ==
    FilterRan =>
        /\ (LastResult.type = "FORM" /\ LastResult.step_id = "station_select")
            => LastResult.offered =
                  Without(NearbyCodes,
                          IF AsksDefaultFuel THEN StoredCodes(entries) ELSE {})
        /\ (AsksDefaultFuel /\ Range(NearbyCodes) \subseteq StoredCodes(last.entries))
            => (LastResult.type = "ABORT" /\ LastResult.reason = "no_available_stations")
        /\ (LastResult.type = "ABORT" /\ LastResult.reason = "no_available_stations")
            => (AsksDefaultFuel /\ Range(NearbyCodes) \subseteq StoredCodes(last.entries))

\* C7 witness: the default fuel, two nearby stations, one of them already in
\* an entry: the form offers the other one only.
C7_Witness ==
    /\ FilterRan
    /\ AsksDefaultFuel
    /\ LastResult.type = "FORM"
    /\ LastResult.step_id = "station_select"
    /\ Len(NearbyCodes) = 2
    /\ Len(LastResult.offered) = 1
    /\ NearbyCodes[1] \in StoredCodes(entries)

IsSortedFuels(fuel_types) ==
    \A i, j \in DOMAIN fuel_types :
        i < j => FuelRank(fuel_types[i]) < FuelRank(fuel_types[j])

\* The last handler updated the entry of the submitted nickname.
EntryUpdated ==
    /\ SelectionSubmitted
    /\ LastResult.type = "ABORT"
    /\ LastResult.reason = "updated_existing"

\* C8: when a fuel type is added to stations already stored under the
\* nickname, each selected stored station keeps its code, state and name and
\* its fuel_types become the sorted, duplicate-free union of its previous
\* fuel types and the selected fuel; every other stored station is unchanged,
\* and the list grows only by the selected stations that were not stored.
C8_FuelTypeUnion ==
    EntryUpdated =>
        /\ Len(StationsAfter) =
              Len(StationsBefore)
                + Cardinality(SubmittedKeys \ { KeyOf(st) : st \in Range(StationsBefore) })
        /\ \A i \in DOMAIN StationsBefore :
              IF KeyOf(StationsBefore[i]) \in SubmittedKeys
              THEN /\ StationsAfter[i] =
                        [StationsBefore[i] EXCEPT !.fuel_types = StationsAfter[i].fuel_types]
                   /\ Range(StationsAfter[i].fuel_types) =
                        Range(StationsBefore[i].fuel_types) \cup {SubmittedFuel}
                   /\ IsSortedFuels(StationsAfter[i].fuel_types)
              ELSE StationsAfter[i] = StationsBefore[i]

\* C8 witness: DL was added to a stored station that had U91 and E10; the
\* nickname still has one station.
C8_Witness ==
    /\ EntryUpdated
    /\ SubmittedFuel = "DL"
    /\ Len(StationsBefore) = 1
    /\ Len(StationsAfter) = 1
    /\ StationsBefore[1].fuel_types = <<"U91", "E10">>
    /\ StationsAfter[1].fuel_types = <<"DL", "E10", "U91">>

\* The stations stored under the submitted nickname before the last handler.
KeysBefore ==
    { KeyOf(st) : st \in StoredUnder(last.entries, SubmittedNickname) }

\* C9: a newly added station gets [selected fuel, 'E10'] exactly when its
\* state is in E10_AVAILABLE_STATES and the selected fuel is U91, and
\* [selected fuel] in every other case.
C9_NewStationFuelTypes ==
    (SelectionSubmitted /\ (LastResult.type = "CREATE_ENTRY" \/ EntryUpdated))
        => \A st \in StoredUnder(entries, SubmittedNickname) :
              KeyOf(st) \notin KeysBefore
                => st.fuel_types =
                      IF st.au_state = "NSW" /\ SubmittedFuel = "U91"
                      THEN <<SubmittedFuel, "E10">>
                      ELSE <<SubmittedFuel>>

\* C9 witness: an entry was created with U91 for a NSW and a TAS station.
C9_Witness ==
    /\ SelectionSubmitted
    /\ LastResult.type = "CREATE_ENTRY"
    /\ SubmittedFuel = "U91"
    /\ KeysBefore = {}
    /\ \E st \in StoredUnder(entries, SubmittedNickname) :
          st.au_state = "NSW" /\ st.fuel_types = <<"U91", "E10">>
    /\ \E st \in StoredUnder(entries, SubmittedNickname) :
          st.au_state = "TAS" /\ st.fuel_types = <<"U91">>

\* station_select was submitted with an empty list of stations.
EmptySelectionSubmitted ==
    /\ HandlerRan("station_select")
    /\ ~last.input.selected.advanced
    /\ last.input.selected.codes = <<>>

NoStationsForm ==
    /\ LastResult.type = "FORM"
    /\ LastResult.step_id = "station_select"
    /\ LastResult.errors.base = "no_stations"
    /\ LastFlow.step = "station_select"

\* C10 as stated: an empty selection always re-shows the form with
\* no_stations.
C10_AsStated ==
    EmptySelectionSubmitted => (NoStationsForm /\ entries = last.entries)

\* C10, amended: an empty selection never creates or updates an entry; it
\* re-shows the station_select form with errors.base = 'no_stations' and the
\* flow stays open, unless the fuel is the default and every nearby station is
\* by then in some entry: the flow then aborts with no_available_stations.
C10_NoStations ==
    EmptySelectionSubmitted =>
        /\ entries = last.entries
        /\ IF NoneFree(LastFlow, last.entries)
           THEN LastResult.type = "ABORT" /\ LastResult.reason = "no_available_stations"
           ELSE NoStationsForm

\* C10 witness: the form was shown again with no_stations.
C10_Witness ==
    EmptySelectionSubmitted /\ NoStationsForm /\ LastResult.offered # <<>>

\* The step just taken is a handler whose station lookup raised.
LookupFailed ==
    /\ last'.flow # 0
    /\ last'.api # <<>>
    /\ last'.api[1].exc # "none"

\* C11: a failed station lookup gives errors.base = 'auth' for
\* NSWFuelApiClientAuthError and 'connection' for any other
\* NSWFuelApiClientError; the form of the step that made the lookup is shown
\* again, the flow does not advance to station_select, and the stored
\* nearby-station list and station lookup are unchanged.
C11_LookupFailure ==
    [][ LookupFailed =>
          LET f == last'.flow
              shown == flow'[f].result
          IN  /\ last'.step \in {"user", "advanced_options"}
              /\ shown.type = "FORM"
              /\ shown.step_id = last'.step
              /\ flow'[f].step = last'.step
              /\ shown.errors.base =
                    IF last'.api[1].exc = "NSWFuelApiClientAuthError" THEN "auth"
                    ELSE "connection"
              /\ shown.errors.nickname = ""
              /\ flow'[f].nearby_station_prices = flow[f].nearby_station_prices
              /\ flow'[f].station_lookup = flow[f].station_lookup
              /\ entries' = entries ]_vars

\* C11 witness: a lookup of the advanced step failed on authentication while
\* the flow held the station list of an earlier lookup.
C11_Witness ==
    /\ HandlerRan("advanced_options")
    /\ last.api = <<Raises("NSWFuelApiClientAuthError")>>
    /\ LastResult.errors.base = "auth"
    /\ LastResult.step_id = "advanced_options"
    /\ LastFlow.nearby_station_prices # <<>>

\* ------------------------------------------------ any input in the forms
\* hass.config: a home zone in Sydney, none, one in Brisbane (outside the
\* bounds), one that is no coordinate at all.
AnyHomeZones ==
    { InSydney[1],
      [latitude |-> <<>>, longitude |-> <<>>],
      [latitude |-> <<-2746980>>, longitude |-> <<15302510>>],
      [latitude |-> <<9100000>>, longitude |-> <<15120930>>] }

\* nicknames given to advanced_options: valid ones, the empty one, one with
\* a space, one with "!", one with a dot, one that ends with a newline, and a
\* newline alone.
AnyNicknames ==
    { Home,
      <<"A", "z", "0", "9", "_", "-">>,
      <<>>,
      <<"m", "y", " ", "h">>,
      <<"h", "i", "!">>,
      <<"a", ".", "b">>,
      <<"H", "o", "m", "e", "\n">>,
      <<"\n">> }

\* locations given to advanced_options: none (not a dict), one without
\* latitude, one without longitude, the corners of the bounds and the points
\* 1e-5 degree outside them, and one that is no coordinate.
AnyLocations ==
    { <<>>,
      << [latitude |-> <<>>, longitude |-> <<14732000>>] >>,
      << [latitude |-> <<-4288000>>, longitude |-> <<>>] >>,
      InHobart,
      InputLocation(-5000000, 14100180),
      InputLocation(-2899608, 15400000),
      InputLocation(-5000001, 14732000),
      InputLocation(-2899607, 14732000),
      InputLocation(-4288000, 14100179),
      InputLocation(-4288000, 15400001),
      InputLocation(-4288000, 18100000) }

\* what the user of the flow types into advanced_options
AnyAdvancedInputs ==
    { [NoInput EXCEPT !.nickname = nickname, !.location = location,
                      !.fuel_type = <<"U91">>] :
        <<nickname, location>> \in (AnyNicknames \X {InHobart}) \cup
                                   ({Work} \X AnyLocations) \cup
                                   ({<<>>} \X {<<>>}) }

\* station codes are not unique across states (data.py, StationKey)
StationX == Station(111, "Mobil Hobart", "TAS")

\* get_fuel_prices_within_radius for advanced_options: the results of
\* NearbyResults, and a list with two stations of one code in two states
AnyNearbyResults ==
    NearbyResults("U91") \cup
        { Returns(<< StationPrice(StationA, "U91", 170),
                     StationPrice(StationX, "U91", 170) >>) }

InitForms ==
    /\ hass_config \in AnyHomeZones
    /\ entries = <<>>
    /\ flow = [f \in Flows |-> NewFlow]
    /\ last = NoHandler
    /\ advanced_submissions = 0
    /\ config_nicknames = <<>>
    /\ init_error = ""
    /\ station_keys = {}
    /\ nickname_locations = <<>>
    /\ pc = "idle"
    /\ todo_keys = {}
    /\ favorites = EmptyDict
    /\ nick_idx = 1
    /\ default_nearby = <<>>
    /\ cheapest = EmptyDict
    /\ outcome = NoOutcome
    /\ data = <<>>
    /\ calls = <<>>
    /\ entities = <<>>
    /\ ApiClientInit
    /\ UiCoordinatorInit
    /\ NothingSetUp
    /\ MultiStationInit

\* async_step_advanced_options(user_input), any user_input
SubmitAnyAdvancedOptions(f) ==
    /\ flow[f].step = "advanced_options"
    /\ advanced_submissions < MaxAdvancedSubmissions
    /\ advanced_submissions' = advanced_submissions + 1
    /\ \E user_input \in AnyAdvancedInputs, api_result \in AnyNearbyResults :
        /\ flow' = [flow EXCEPT ![f] =
                        AdvancedOptionsStep(flow[f], entries, user_input, api_result)]
        /\ Ran(f, "advanced_options", user_input,
               IF AdvancedOptionsStepLooksUp(user_input) THEN <<api_result>> ELSE <<>>)
    /\ UNCHANGED <<hass_config, entries, coordVars, sensorVars, clientVars, uiVars, setupVars, multiVars>>

\* Flow 1 stays on the default path; flow 2 opens the advanced options.
NextForms ==
    \/ \E f \in Flows : FlowInit(f)
    \/ \E f \in Flows : SubmitUser(f)
    \/ \E f \in Flows : SubmitStationSelect(f)
    \/ SubmitAnyAdvancedOptions(2)

SpecForms == InitForms /\ [][NextForms]_vars

\* The location is a pair of coordinates inside the bounds of const.py.
InsideBounds(location) ==
    /\ location # <<>>
    /\ location[1].latitude # <<>>
    /\ location[1].longitude # <<>>
    /\ location[1].latitude[1] \in -5000000 .. -2899608
    /\ location[1].longitude[1] \in 14100180 .. 15400000

\* C12: when the home location of the host is missing, invalid or outside
\* the bounds, submitting the credentials shows the advanced_options form with
\* errors.base = 'invalid_coordinates' and the step makes no station lookup.
C12_InvalidHomeZone ==
    (HandlerRan("user") /\ ~InsideBounds(<<hass_config>>))
        => /\ LastResult.type = "FORM"
           /\ LastResult.step_id = "advanced_options"
           /\ LastResult.errors.base = "invalid_coordinates"
           /\ LastFlow.step = "advanced_options"
           /\ last.api = <<>>
           /\ LastFlow.nearby_station_prices = <<>>
           /\ LastFlow.station_lookup = EmptyDict

\* C12 witness: the credentials were submitted with a home zone in Brisbane.
C12_Witness ==
    /\ HandlerRan("user")
    /\ hass_config.latitude = <<-2746980>>
    /\ LastResult.step_id = "advanced_options"
    /\ LastResult.errors.base = "invalid_coordinates"

\* advanced_options was submitted with a nickname that passes its check.
AdvancedSubmitted ==
    /\ HandlerRan("advanced_options")
    /\ NicknameIsValid(last.input.nickname)

RejectedLocation ==
    /\ LastResult.type = "FORM"
    /\ LastResult.step_id = "advanced_options"
    /\ LastResult.errors.base = "invalid_coordinates"
    /\ LastFlow.step = "advanced_options"
    /\ last.api = <<>>

\* C13: a location is accepted exactly when its latitude is in
\* [-50, -28.99608] and its longitude in [141.00180, 154], bounds included;
\* any other location, a missing one included, is rejected with
\* 'invalid_coordinates': advanced_options stays on its form and makes no
\* station lookup. For an accepted location the lookup is made and the
\* location is stored under the nickname.
C13_LocationBounds ==
    AdvancedSubmitted =>
        IF InsideBounds(last.input.location)
        THEN /\ LastResult.errors.base # "invalid_coordinates"
             /\ last.api # <<>>
             /\ LastFlow.flow_data.nicknames[last.input.nickname].location =
                    [latitude |-> last.input.location[1].latitude[1],
                     longitude |-> last.input.location[1].longitude[1]]
        ELSE RejectedLocation

\* C13 witness: the south-west corner of the bounds was accepted and the
\* flow went on to station_select.
C13_Witness ==
    /\ AdvancedSubmitted
    /\ last.input.location = InputLocation(-5000000, 14100180)
    /\ LastResult.type = "FORM"
    /\ LastResult.step_id = "station_select"

\* The nickname is non-empty and has only the characters A-Z, a-z, 0-9, '_'
\* and '-'.
OnlyNicknameChars(nickname) ==
    /\ nickname # <<>>
    /\ \A i \in DOMAIN nickname : nickname[i] \in NicknameChars

\* C14 as stated: advanced_options accepts a nickname exactly when it is
\* non-empty and has only the characters A-Z, a-z, 0-9, '_' and '-'; any
\* other nickname re-shows advanced_options with errors.nickname =
\* 'invalid_nickname' and makes no station lookup.
C14_AsStated ==
    HandlerRan("advanced_options") =>
        IF OnlyNicknameChars(last.input.nickname)
        THEN LastResult.errors.nickname = ""
        ELSE /\ LastResult.type = "FORM"
             /\ LastResult.step_id = "advanced_options"
             /\ LastResult.errors.nickname = "invalid_nickname"
             /\ last.api = <<>>

\* station_select was submitted with the '__advanced__' marker alone.
MarkerAloneSubmitted ==
    /\ HandlerRan("station_select")
    /\ last.input.selected.advanced
    /\ last.input.selected.codes = <<>>

\* C15 as stated: the marker alone always moves the flow to advanced_options.
C15_AsStated ==
    MarkerAloneSubmitted
        => /\ LastResult.type = "FORM"
           /\ LastResult.step_id = "advanced_options"
           /\ entries = last.entries

\* The step just taken is station_select with the marker in the selection.
MarkerSubmitted ==
    /\ last'.flow # 0
    /\ last'.step = "station_select"
    /\ last'.input.selected.advanced

\* C15, amended: a selection with the '__advanced__' marker alone never
\* creates or updates an entry and moves the flow to the advanced_options
\* form, unless the fuel is the default and every nearby station is by then
\* in some entry (ABORT no_available_stations); a selection with the marker
\* and station codes has the result, and the effect on the entries, of the
\* same selection without the marker.
C15_AdvancedMarker ==
    [][ MarkerSubmitted =>
          LET f == last'.flow
              plain == StationSelectStep(flow[f], entries,
                          [last'.input EXCEPT !.selected.advanced = FALSE])
          IN  IF last'.input.selected.codes = <<>>
              THEN /\ entries' = entries
                   /\ IF NoneFree(flow[f], entries)
                      THEN /\ flow'[f].result.type = "ABORT"
                           /\ flow'[f].result.reason = "no_available_stations"
                      ELSE /\ flow'[f].result = ShowForm("advanced_options", NoErrors, <<>>)
                           /\ flow'[f].step = "advanced_options"
              ELSE /\ entries' = plain.entries
                   /\ flow'[f].result = plain.flow.result
                   /\ flow'[f].step = plain.flow.step ]_vars

\* C15 witness: a selection of the marker and two station codes created an
\* entry with the two stations.
C15_Witness ==
    /\ HandlerRan("station_select")
    /\ last.input.selected.advanced
    /\ Len(last.input.selected.codes) = 2
    /\ LastResult.type = "CREATE_ENTRY"
    /\ Len(entries) = Len(last.entries) + 1
    /\ Len(entries[Len(entries)].data.nicknames[SubmittedNickname].stations) = 2

\* Every (station code, state) stored in a list of entries.
StoredKeys(es) ==
    { KeyOf(st) : st \in UNION { EntryStations(es[i]) : i \in DOMAIN es } }

\* The filter of configured stations tells stations apart by (code, state):
\* the flow aborts with no_available_stations only if every nearby station is
\* configured, and a form offers every nearby station that is not.
FilterByCodeAndState ==
    (last.flow # 0 /\ AsksDefaultFuel) =>
        /\ (LastResult.type = "ABORT" /\ LastResult.reason = "no_available_stations")
            => \A i \in DOMAIN LastFlow.nearby_station_prices :
                  LET st == LastFlow.nearby_station_prices[i].station
                  IN  <<st.code, st.au_state>> \in StoredKeys(last.entries)
        /\ (LastResult.type = "FORM" /\ LastResult.step_id = "station_select")
            => \A i \in DOMAIN LastFlow.nearby_station_prices :
                  LET st == LastFlow.nearby_station_prices[i].station
                  IN  <<st.code, st.au_state>> \notin StoredKeys(entries)
                        => st.code \in Range(LastResult.offered)

\* The station lookup tells stations apart by (code, state): the state and
\* the name of every nearby station can be looked up.
LookupByCodeAndState ==
    \A f \in Flows : \A i \in DOMAIN flow[f].nearby_station_prices :
        LET st == flow[f].nearby_station_prices[i].station
        IN  \E code \in DOMAIN flow[f].station_lookup :
                flow[f].station_lookup[code] =
                    [station_code |-> st.code, station_name |-> st.name,
                     au_state |-> st.au_state]

\* C16 as stated: two nearby stations with the same code in different states
\* are different stations for the filter of configured stations and for the
\* lookup of the state and name of a selected station.
C16_AsStated == FilterByCodeAndState /\ LookupByCodeAndState

\* ------------------------------------------------ more coordinator claims
\* The calls of get_fuel_prices_for_station in the current refresh.
FavoriteCalls == { i \in DOMAIN calls : calls[i].api = "get_fuel_prices_for_station" }

\* The favorites loop of the current refresh has run to its end.
FavoritesFetched ==
    \/ pc \in {"u91", "e10"}
    \/ \E i \in DOMAIN calls : calls[i].api = "get_fuel_prices_within_radius"

\* The station records of the configuration, as (nickname index, position).
ConfiguredStations ==
    { <<i, j>> \in (DOMAIN config_nicknames) \X (1..3) :
        j \in DOMAIN config_nicknames[i].stations }

ConfiguredKey(at) ==
    << config_nicknames[at[1]].stations[at[2]].station_code,
       config_nicknames[at[1]].stations[at[2]].au_state >>

ReturnedPrices(key) ==
    calls[CHOOSE i \in FavoriteCalls : calls[i].target = key].result.value

\* C18: the map _update_favorite_stations returns has exactly the configured
\* (code, state) keys, and its value for a key maps fuel type to Price for
\* exactly the returned prices with a non-empty fuel type and a non-null
\* price.
C18_FavoritesMap ==
    FavoritesFetched =>
        /\ DOMAIN favorites = station_keys
        /\ \A key \in station_keys :
              LET returned == ReturnedPrices(key)
                  usable == { i \in DOMAIN returned :
                                returned[i].fuel_type # "" /\ returned[i].price # <<>> }
              IN  /\ DOMAIN favorites[key] = { returned[i].fuel_type : i \in usable }
                  /\ \A i \in usable : favorites[key][returned[i].fuel_type] = returned[i]
        /\ outcome.kind = "returned" => outcome.payload[1].favorites = favorites

\* C18 witness: a station returned four prices, one with a null price and
\* one with an empty fuel type, and its map has the two others.
C18_Witness ==
    /\ FavoritesFetched
    /\ \E key \in station_keys :
          /\ Len(ReturnedPrices(key)) = 4
          /\ DOMAIN favorites[key] = {"U91", "E10"}

\* The U91 query of the nickname returned a list whose first station is in
\* a state without E10.
FirstResultWithoutE10(nickname) ==
    LET u91 == RadiusResult(nickname, DEFAULT_FUEL_TYPE)
    IN  /\ u91 # <<>>
        /\ u91[1] # <<>>
        /\ u91[1][1].station.au_state \notin E10_AVAILABLE_STATES

\* C19: for a nickname whose first U91 result is in a state outside
\* E10_AVAILABLE_STATES no E10 query is made in the refresh, and its cheapest
\* list is stored with U91 as the fuel type of every entry.
C19_NoE10OutsideNSW ==
    \A nickname \in RefreshNicknames :
        FirstResultWithoutE10(nickname) =>
            /\ \A i \in DOMAIN calls :
                  calls[i].target = nickname => calls[i].fuel_type # E10_CODE
            /\ nickname \in DOMAIN cheapest
            /\ cheapest[nickname] # <<>>
            /\ \A i \in DOMAIN cheapest[nickname] :
                  cheapest[nickname][i].fuel_type = DEFAULT_FUEL_TYPE

\* C19 witness: a finished refresh of two nicknames, the first with E10
\* results in its list, the second with a TAS station first and U91 only.
C19_Witness ==
    /\ outcome.kind = "returned"
    /\ FirstResultWithoutE10("Hobart")
    /\ Len(cheapest["Hobart"]) = 2
    /\ RadiusResult("Home", E10_CODE) # <<>>
    /\ \E i \in DOMAIN cheapest["Home"] : cheapest["Home"][i].fuel_type = E10_CODE

\* ---- claims about the construction of the coordinator
\* What the configured location of the i-th nickname lacks.
LocationNotDict(i) == ~config_nicknames[i].location.is_dict
LocationMissingPart(i) ==
    /\ config_nicknames[i].location.is_dict
    /\ \/ config_nicknames[i].location.latitude.type = "NoneType"
       \/ config_nicknames[i].location.longitude.type = "NoneType"
LocationNonNumeric(i) ==
    /\ config_nicknames[i].location.is_dict
    /\ ~LocationMissingPart(i)
    /\ \/ config_nicknames[i].location.latitude.type = "str"
       \/ config_nicknames[i].location.longitude.type = "str"

UnacceptableNicknames ==
    { i \in DOMAIN config_nicknames :
        LocationNotDict(i) \/ LocationMissingPart(i) \/ LocationNonNumeric(i) }

FirstUnacceptable == CHOOSE i \in UnacceptableNicknames : \A j \in UnacceptableNicknames : i <= j

ConstructionFailed == pc = "failed"
Constructed == pc \notin {"new", "failed"}

\* C20: once the constructor has run, it has failed exactly when the
\* nicknames are empty or some location cannot be accepted.  The exception
\* is that of the first such nickname: TypeError for a location that is not
\* a dict, ValueError for one without latitude or longitude, TypeError for a
\* latitude or longitude that is not a number; an empty map gives
\* ValueError.  After a failure there is no coordinator: nothing is stored
\* and no refresh runs.  After a success the nicknames property lists the
\* configured nicknames, in their order.
C20_ConstructorValidates ==
    pc # "new" =>
        /\ ConstructionFailed <=> (config_nicknames = <<>> \/ UnacceptableNicknames # {})
        /\ ConstructionFailed =>
              /\ station_keys = {}
              /\ nickname_locations = <<>>
              /\ calls = <<>>
              /\ outcome = NoOutcome
              /\ data = <<>>
              /\ config_nicknames = <<>> => init_error = "ValueError"
              /\ UnacceptableNicknames # {} =>
                    /\ LocationNotDict(FirstUnacceptable) => init_error = "TypeError"
                    /\ LocationMissingPart(FirstUnacceptable) => init_error = "ValueError"
                    /\ LocationNonNumeric(FirstUnacceptable) => init_error = "TypeError"
        /\ Constructed =>
              /\ init_error = ""
              /\ NicknamesProperty =
                    [i \in DOMAIN config_nicknames |-> config_nicknames[i].nickname]

\* C20 witness: the constructor has raised TypeError for a longitude that is
\* a string next to a numeric latitude.
C20_Witness ==
    /\ ConstructionFailed
    /\ init_error = "TypeError"
    /\ Len(config_nicknames) = 1
    /\ config_nicknames[1].location.is_dict
    /\ config_nicknames[1].location.latitude.type = "float"
    /\ config_nicknames[1].location.longitude.type = "str"

\* ---- claims about the sensors
SensorsAdded == entities # <<>>

AddedOfClass(class) == SelectSeq(entities[1], LAMBDA e : e.class = class)

ConfiguredNicknames == { config_nicknames[i].nickname : i \in DOMAIN config_nicknames }

\* C21: the entities added hold, for every configured nickname, exactly one
\* cheapest sensor of rank 1 and exactly one of rank 2, and no other cheapest
\* sensor, whatever the coordinator data is when they are created and later.
C21_TwoCheapestSensorsPerNickname ==
    SensorsAdded =>
        LET added == AddedOfClass("CheapestFuelPriceSensor")
        IN  /\ Len(added) = 2 * Cardinality(ConfiguredNicknames)
            /\ \A nickname \in ConfiguredNicknames, rank \in {1, 2} :
                  Cardinality({ k \in DOMAIN added :
                      added[k].device = nickname /\ added[k].rank = rank }) = 1

\* C21 witness: the four sensors of two nicknames exist while the data has
\* a cheapest list for one nickname and none for the other.
C21_Witness ==
    /\ SensorsAdded
    /\ Len(AddedOfClass("CheapestFuelPriceSensor")) = 4
    /\ data # <<>>
    /\ "Hobart" \notin DOMAIN data[1].cheapest
    /\ "Home" \in DOMAIN data[1].cheapest

\* The last refresh returned, and no other has started: `calls` holds the
\* calls the data comes from.
RefreshReturned == outcome.kind = "returned"

\* The radius query of the refresh for a nickname and fuel type returned sp.
ReturnedNearby(nickname, fuel_type, sp) ==
    \E i \in DOMAIN calls :
        /\ calls[i].api = "get_fuel_prices_within_radius"
        /\ calls[i].target = nickname
        /\ calls[i].fuel_type = fuel_type
        /\ calls[i].result.exc = "none"
        /\ sp \in Range(calls[i].result.value)

\* C22: a cheapest sensor of rank r reports nothing, as value and as
\* attributes, when the coordinator has no data or the cheapest list of its
\* nickname has fewer than r entries.  Otherwise its value is the price of
\* entry r of that list (counted from 1) and its attributes are the station
\* code, station name, fuel type and price of that entry with rank = r; after
\* a refresh that entry is a station price the radius query of that fuel
\* type returned for the nickname.
C22_CheapestSensorReports ==
    SensorsAdded =>
        \A k \in DOMAIN entities[1] :
            LET sensor == entities[1][k]
                current == IF data # <<>> /\ sensor.device \in DOMAIN data[1].cheapest
                           THEN data[1].cheapest[sensor.device] ELSE <<>>
            IN  sensor.class = "CheapestFuelPriceSensor" =>
                    IF data = <<>> \/ Len(current) < sensor.rank
                    THEN /\ CheapestNativeValue(sensor) = <<>>
                         /\ CheapestAttributes(sensor) = <<>>
                    ELSE /\ CheapestNativeValue(sensor) = << current[sensor.rank].price >>
                         /\ CheapestAttributes(sensor) =
                              << [station_code |-> current[sensor.rank].station_code,
                                  station_name |-> current[sensor.rank].station_name,
                                  fuel_type |-> current[sensor.rank].fuel_type,
                                  price |-> current[sensor.rank].price,
                                  rank |-> sensor.rank] >>
                         /\ RefreshReturned =>
                              \E sp \in UNION { Range(calls[i].result.value) :
                                                i \in { j \in DOMAIN calls :
                                                    calls[j].target = sensor.device } } :
                                 /\ ReturnedNearby(sensor.device,
                                        CheapestAttributes(sensor)[1].fuel_type, sp)
                                 /\ sp.price.price = CheapestNativeValue(sensor)
                                 /\ sp.station.code = CheapestAttributes(sensor)[1].station_code
                                 /\ sp.station.name = CheapestAttributes(sensor)[1].station_name

\* C22 witness: after a refresh the rank-1 sensor of a nickname reports an
\* E10 price, and the rank-2 sensor of another nickname, whose list has one
\* entry, reports nothing.
C22_Witness ==
    /\ SensorsAdded
    /\ RefreshReturned
    /\ \E k \in DOMAIN entities[1] :
          /\ entities[1][k].class = "CheapestFuelPriceSensor"
          /\ entities[1][k].rank = 1
          /\ CheapestAttributes(entities[1][k]) # <<>>
          /\ CheapestAttributes(entities[1][k])[1].fuel_type = E10_CODE
    /\ \E k \in DOMAIN entities[1] :
          /\ entities[1][k].class = "CheapestFuelPriceSensor"
          /\ entities[1][k].rank = 2
          /\ Len(CheapestList(entities[1][k].device)) = 1
          /\ CheapestNativeValue(entities[1][k]) = <<>>

\* The (nickname, station, fuel type) triples the nicknames block lists, by
\* their positions in it.
ListedFavorites ==
    UNION { UNION { IF "fuel_types" \in DOMAIN config_nicknames[i].stations[j]
                    THEN { <<i, j, k>> :
                            k \in DOMAIN config_nicknames[i].stations[j].fuel_types }
                    ELSE {} :
                j \in DOMAIN config_nicknames[i].stations } :
        i \in DOMAIN config_nicknames }

\* The sensor is the one of the listed triple.
SensorOfListed(sensor, listed) ==
    LET nickname == config_nicknames[listed[1]]
        station == nickname.stations[listed[2]]
    IN  /\ sensor.class = "FuelPriceSensor"
        /\ sensor.device = nickname.nickname
        /\ sensor.station_code = station.station_code
        /\ sensor.au_state = station.au_state
        /\ sensor.fuel_type = station.fuel_types[listed[3]]

\* C23: the entities added hold exactly one FuelPriceSensor for every
\* (nickname, station, fuel type) the nicknames block lists, on the device of
\* its nickname, and no other FuelPriceSensor: none for a station whose
\* fuel_types is empty or missing.
C23_OneFavoriteSensorPerFuelType ==
    SensorsAdded =>
        LET added == AddedOfClass("FuelPriceSensor")
        IN  /\ Len(added) = Cardinality(ListedFavorites)
            /\ \A listed \in ListedFavorites :
                  Cardinality({ k \in DOMAIN added : SensorOfListed(added[k], listed) }) = 1
            /\ \A k \in DOMAIN added :
                  \E listed \in ListedFavorites : SensorOfListed(added[k], listed)

\* C23 witness: sensors were added for a nickname with a station of one fuel
\* type, a station with no fuel types and a station without the key.
C23_Witness ==
    /\ SensorsAdded
    /\ Len(AddedOfClass("FuelPriceSensor")) = 1
    /\ Len(config_nicknames[1].stations) = 3
    /\ config_nicknames[1].stations[2].fuel_types = <<>>
    /\ "fuel_types" \notin DOMAIN config_nicknames[1].stations[3]

\* What the refresh in `calls` returned for a station key and fuel type: the
\* price of the last usable Price of that fuel type (Optional).
ReturnedFavoritePrice(key, fuel_type) ==
    LET fetched == { i \in DOMAIN calls :
                        /\ calls[i].api = "get_fuel_prices_for_station"
                        /\ calls[i].target = key
                        /\ calls[i].result.exc = "none" }
    IN  IF fetched = {} THEN <<>>
        ELSE LET prices == calls[CHOOSE i \in fetched : TRUE].result.value
                 usable == { j \in DOMAIN prices :
                                /\ prices[j].fuel_type = fuel_type
                                /\ prices[j].fuel_type # ""
                                /\ prices[j].price # <<>> }
             IN  IF usable = {} THEN <<>>
                 ELSE prices[CHOOSE j \in usable : \A x \in usable : x <= j].price

\* What the k-th entity added reports and what, as a favorite sensor, the
\* refresh in `calls` returned for it.
FavoriteReading(k) == FavoriteNativeValue(entities[1][k])
ReturnedForSensor(k) ==
    ReturnedFavoritePrice(<<entities[1][k].station_code, entities[1][k].au_state>>,
                          entities[1][k].fuel_type)
IsFavoriteSensor(k) == entities[1][k].class = "FuelPriceSensor"

\* C24: a favorite sensor reports nothing while the coordinator has no data.
\* Once a refresh has returned, it reports the price that refresh fetched for
\* its station key and fuel type, nothing if it fetched none; any other step
\* (the start or a call of the next refresh, a refresh that fails) leaves
\* what it reports as it was.
C24_FavoriteSensorReports ==
    [][ SensorsAdded' =>
          \A k \in DOMAIN entities'[1] :
              IsFavoriteSensor(k)' =>
                  /\ data' = <<>> => FavoriteReading(k)' = <<>>
                  /\ RefreshReturned' => FavoriteReading(k)' = ReturnedForSensor(k)'
                  /\ (SensorsAdded /\ ~RefreshReturned') =>
                        FavoriteReading(k)' = FavoriteReading(k)
      ]_vars

\* C24 witness: after a refresh that failed, a favorite sensor still reports
\* the price of an earlier refresh, and another reports nothing for a fuel
\* type whose price was null.
C24_Witness ==
    /\ SensorsAdded
    /\ outcome.kind = "UpdateFailed"
    /\ \E k \in DOMAIN entities[1] :
          /\ entities[1][k].class = "FuelPriceSensor"
          /\ FavoriteNativeValue(entities[1][k]) = <<170>>
    /\ \E k \in DOMAIN entities[1] :
          /\ entities[1][k].class = "FuelPriceSensor"
          /\ entities[1][k].fuel_type = "DL"
          /\ <<entities[1][k].station_code, entities[1][k].au_state>> \in DOMAIN data[1].favorites
          /\ FavoriteNativeValue(entities[1][k]) = <<>>

\* ---- more claims about the cheapest lists
\* the prices of a list of StationPrice
PricesOf(sps) == { sps[i].price.price[1] : i \in DOMAIN sps }

LowestOf(prices) == CHOOSE p \in prices : \A q \in prices : p <= q

\* The nickname has a stored list whose U91 results begin in an E10 state,
\* and its E10 query returned.
StoredWithE10(nickname) ==
    /\ nickname \in DOMAIN cheapest
    /\ RadiusResult(nickname, DEFAULT_FUEL_TYPE) # <<>>
    /\ RadiusResult(nickname, DEFAULT_FUEL_TYPE)[1] # <<>>
    /\ RadiusResult(nickname, DEFAULT_FUEL_TYPE)[1][1].station.au_state
          \in E10_AVAILABLE_STATES
    /\ RadiusResult(nickname, E10_CODE) # <<>>

\* C29 as stated: the rank-1 price of an NSW nickname is the minimum over
\* every U91 price and every E10 price the API returned for it.
C29_AsStated ==
    \A nickname \in RefreshNicknames :
        StoredWithE10(nickname) =>
            cheapest[nickname][1].price =
                LowestOf(PricesOf(RadiusResult(nickname, DEFAULT_FUEL_TYPE)[1])
                         \cup PricesOf(RadiusResult(nickname, E10_CODE)[1]))

\* C29: the rank-1 price of an NSW nickname is the minimum over every U91
\* price and the first E10_TRUNCATE_LIST E10 prices the API returned for it.
C29_RankOneIsMinimum ==
    \A nickname \in RefreshNicknames :
        StoredWithE10(nickname) =>
            cheapest[nickname][1].price =
                LowestOf(PricesOf(RadiusResult(nickname, DEFAULT_FUEL_TYPE)[1])
                         \cup PricesOf(Take(RadiusResult(nickname, E10_CODE)[1],
                                            E10_TRUNCATE_LIST)))

\* C29 witness: a returned refresh whose rank-1 entry is an E10 price below
\* every U91 price.
C29_Witness ==
    /\ outcome.kind = "returned"
    /\ StoredWithE10("Home")
    /\ cheapest["Home"][1].fuel_type = E10_CODE
    /\ \A p \in PricesOf(RadiusResult("Home", DEFAULT_FUEL_TYPE)[1]) :
          cheapest["Home"][1].price < p

\* The U91 query of the nickname returned an empty list in this refresh.
NothingNearby(nickname) == RadiusResult(nickname, DEFAULT_FUEL_TYPE) = << <<>> >>

RefreshFailed == outcome.kind \in {"UpdateFailed", "ConfigEntryAuthFailed"}

\* C30: a nickname whose U91 query returned an empty list gets no entry in
\* `cheapest`, and no E10 query.  The refresh fails only when a call raised.
\* When it returns, every nickname was queried, the nicknames with results
\* have their entries, and both cheapest sensors of a nickname without
\* results report nothing, as value and as attributes.
C30_EmptyResultSkipsNickname ==
    /\ RefreshFailed => calls[Len(calls)].result.exc # "none"
    /\ \A nickname \in RefreshNicknames :
          NothingNearby(nickname) =>
              /\ nickname \notin DOMAIN cheapest
              /\ RadiusResult(nickname, E10_CODE) = <<>>
    /\ RefreshReturned =>
          \A nickname \in RefreshNicknames :
              /\ RadiusResult(nickname, DEFAULT_FUEL_TYPE) # <<>>
              /\ nickname \in DOMAIN data[1].cheapest <=> ~NothingNearby(nickname)
              /\ (NothingNearby(nickname) /\ SensorsAdded) =>
                    \A k \in DOMAIN entities[1] :
                        (/\ entities[1][k].class = "CheapestFuelPriceSensor"
                         /\ entities[1][k].device = nickname) =>
                            /\ CheapestNativeValue(entities[1][k]) = <<>>
                            /\ CheapestAttributes(entities[1][k]) = <<>>

\* C30 witness: a refresh returned in which the first nickname had no
\* results and the second has its list; the sensors of the first report
\* nothing, those of the second report prices.
C30_Witness ==
    /\ RefreshReturned
    /\ SensorsAdded
    /\ Len(nickname_locations) = 2
    /\ NothingNearby(nickname_locations[1].nickname)
    /\ nickname_locations[2].nickname \in DOMAIN data[1].cheapest
    /\ \E k \in DOMAIN entities[1] :
          /\ entities[1][k].class = "CheapestFuelPriceSensor"
          /\ entities[1][k].device = nickname_locations[2].nickname
          /\ CheapestNativeValue(entities[1][k]) # <<>>
    /\ \E k \in DOMAIN entities[1] :
          /\ entities[1][k].class = "CheapestFuelPriceSensor"
          /\ entities[1][k].device = nickname_locations[1].nickname
          /\ CheapestNativeValue(entities[1][k]) = <<>>

\* ---- claims about nsw_fuel_ui
\* the token requests among the requests of the call of caller c
TokenRequestsSent(c) ==
    { i \in DOMAIN api_call[c].sent : api_call[c].sent[i].kind = "token" }
DataRequestsSent(c) ==
    { i \in DOMAIN api_call[c].sent : api_call[c].sent[i].kind = "data" }

\* async_get_token has just returned a token it requested: the call waits
\* for the answer to the data request it sent with it.
TokenJustFetched(c) ==
    /\ api_pc[c] \in {"data", "retry"}
    /\ api_call[c].gets[Len(api_call[c].gets)].requested

\* C26: async_get_token requests a token exactly when none is cached (None,
\* or an empty string) or the time is later than 60 seconds before the
\* expiry; otherwise it sends no token request and the data request carries
\* the cached token.  When a token request has succeeded, the token is the
\* access_token of the answer and the expiry is the time the request was
\* made plus its expires_in, 3600 when the answer has none.
C26_TokenCache ==
    \A c \in Calls :
        LET call == api_call[c]
        IN  /\ \A i \in DOMAIN call.gets :
                  LET get == call.gets[i]
                  IN  get.requested <=>
                          (get.cached = <<>> \/ get.cached = <<"">>
                              \/ get.at > get.expiry - 60)
            /\ Cardinality(TokenRequestsSent(c)) =
                  Cardinality({ i \in DOMAIN call.gets : call.gets[i].requested })
            /\ (call.gets # <<>> /\ ~call.gets[1].requested) =>
                  call.sent[1] = [kind |-> "data", path |-> call.path,
                                  bearer |-> call.gets[1].cached]
            /\ TokenJustFetched(c) =>
                  LET answer == call.answers[Len(call.answers)]
                      made == call.gets[Len(call.gets)].at
                  IN  /\ token = answer.access_token
                      /\ token_expiry = made + (IF answer.expires_in = <<>> THEN 3600
                                                ELSE answer.expires_in[1])
                      /\ call.sent[Len(call.sent)].bearer = answer.access_token

\* C26 witness: a call made exactly 60 seconds before the expiry uses the
\* cached token, whose expiry is the time of an earlier request plus 3600.
C26_Witness ==
    /\ api_pc[1] = "data"
    /\ api_call[1].gets[1].cached = <<"A">>
    /\ ~api_call[1].gets[1].requested
    /\ api_call[1].gets[1].at = api_call[1].gets[1].expiry - 60
    /\ token_expiry = StartTime + 3600
    /\ api_call[1].sent =
          << [kind |-> "data", path |-> api_call[1].path, bearer |-> <<"A">>] >>

\* The i-th request of the call was a data request answered with 401.
Unauthorized(c, i) ==
    /\ i \in DOMAIN api_call[c].answers
    /\ api_call[c].sent[i].kind = "data"
    /\ api_call[c].answers[i].status = 401

FirstDataRequest(c) ==
    CHOOSE i \in DataRequestsSent(c) : \A j \in DataRequestsSent(c) : i <= j

\* The i-th request was a token request answered with a token.
TokenGranted(c, i) ==
    /\ i \in DOMAIN api_call[c].answers
    /\ api_call[c].sent[i].kind = "token"
    /\ api_call[c].answers[i].status = 200
    /\ api_call[c].answers[i].access_token \notin {<<>>, <<"">>}

\* C27: one call of _async_request sends at most two data requests, all of
\* its own path, and at most two token requests.  After a 401 answer to the
\* first data request the cached token is dropped and a token is requested;
\* when it is granted the same request is sent once more with the new token,
\* and nothing after it.  A 401 answer to that retry ends the call with
\* NSWFuelApiClientAuthError.
C27_RetryOnce ==
    \A c \in Calls :
        LET call == api_call[c]
        IN  /\ Cardinality(DataRequestsSent(c)) <= 2
            /\ Cardinality(TokenRequestsSent(c)) <= 2
            /\ \A i \in DataRequestsSent(c) : call.sent[i].path = call.path
            /\ api_pc[c] = "retry_token" => token = <<>>
            /\ \A i \in DOMAIN call.sent :
                  Unauthorized(c, i) =>
                      IF i = FirstDataRequest(c)
                      THEN /\ Len(call.sent) > i
                           /\ call.sent[i + 1].kind = "token"
                           /\ call.gets[Len(call.gets)].cached = <<>>
                           /\ Len(call.sent) <= i + 2
                           /\ TokenGranted(c, i + 1) =>
                                 /\ Len(call.sent) = i + 2
                                 /\ call.sent[i + 2] =
                                       [kind |-> "data", path |-> call.path,
                                        bearer |-> call.answers[i + 1].access_token]
                      ELSE /\ i = Len(call.sent)
                           /\ api_pc[c] = "idle"
                           /\ request_result[c].kind = "NSWFuelApiClientAuthError"

\* C27 witness: a call that requested a token, was answered 401, requested
\* another token, retried with it and was answered 401 again.
C27_Witness ==
    /\ api_pc[1] = "idle"
    /\ Cardinality(TokenRequestsSent(1)) = 2
    /\ Cardinality(DataRequestsSent(1)) = 2
    /\ Unauthorized(1, 2)
    /\ Unauthorized(1, 4)
    /\ api_call[1].sent[2].bearer # api_call[1].sent[4].bearer
    /\ request_result[1].kind = "NSWFuelApiClientAuthError"

\* The data request of the call was answered 401 and the token request that
\* followed was refused with 401, or answered without a token.
RefreshRefused(c) ==
    /\ DataRequestsSent(c) # {}
    /\ Unauthorized(c, FirstDataRequest(c))
    /\ FirstDataRequest(c) + 1 \in DOMAIN api_call[c].answers
    /\ api_call[c].answers[FirstDataRequest(c) + 1].status = 401

RefreshWithoutToken(c) ==
    /\ DataRequestsSent(c) # {}
    /\ Unauthorized(c, FirstDataRequest(c))
    /\ FirstDataRequest(c) + 1 \in DOMAIN api_call[c].answers
    /\ api_call[c].answers[FirstDataRequest(c) + 1].status = 200
    /\ api_call[c].answers[FirstDataRequest(c) + 1].access_token \in {<<>>, <<"">>}

\* C28 as stated: a call whose token could not be refreshed after a 401
\* response (the token request was refused as unauthorized, or its answer
\* held no token) ends with NSWFuelApiClientAuthError.
C28_AsStated ==
    \A c \in Calls :
        (RefreshRefused(c) \/ RefreshWithoutToken(c)) =>
            request_result[c].kind = "NSWFuelApiClientAuthError"

\* ---- claims about the coordinator of nsw_fuel_ui
\* a refresh has been started / has ended
RefreshStarted == ui_refresh.fetches # <<>>
RefreshEnded == RefreshStarted /\ ui_pc = "idle"

FetchedInRefresh(what) == \E i \in DOMAIN ui_refresh.fetches : ui_refresh.fetches[i] = what

\* When the refresh started, no reference data was cached or 30 whole days
\* had passed since the last reference fetch that succeeded.
ReferenceStale ==
    \/ ui_refresh.before.reference_data = <<>>
    \/ (ui_refresh.at - ui_refresh.before.last_ref_update) \div 24 >= 30

\* A refresh fetches the reference data exactly when it is stale.
ReferenceFetchedWhenStale ==
    RefreshStarted => (FetchedInRefresh("reference") <=> ReferenceStale)

\* The result of a refresh pairs the cached reference data with the prices
\* the refresh fetched.
ResultPairs ==
    (RefreshEnded /\ ui_refresh.outcome.kind = "returned") =>
        /\ ui_refresh.prices # <<>>
        /\ ui_refresh.prices[1].exc = "none"
        /\ ui_refresh.outcome.payload =
              << [reference |-> reference_data, prices |-> ui_refresh.prices[1].value] >>
        /\ reference_data # <<>>

\* C25 as stated: a refresh fetches the reference data exactly when none is
\* cached or 30 whole days have passed since the last reference fetch that
\* succeeded; every refresh fetches the station price; the result pairs the
\* cached reference data with the prices just fetched.
C25_AsStated ==
    /\ ReferenceFetchedWhenStale
    /\ RefreshEnded => FetchedInRefresh("prices")
    /\ ResultPairs

\* C25, amended: a refresh fetches the reference data exactly when none is
\* cached or 30 whole days have passed since the last reference fetch that
\* succeeded; every refresh whose reference fetch did not fail fetches the
\* station price, and a refresh whose reference fetch failed fetches no
\* price; the result pairs the cached reference data with the prices just
\* fetched.
C25_Refresh ==
    /\ ReferenceFetchedWhenStale
    /\ RefreshEnded =>
          (FetchedInRefresh("prices") <=>
              (ui_refresh.reference = <<>> \/ ui_refresh.reference[1].exc = "none"))
    /\ ResultPairs

\* C25 witness: a refresh 30 days to the hour after a reference fetch that
\* succeeded fetched the reference data again, then the prices, and
\* returned the pair.
C25_Witness ==
    /\ RefreshEnded
    /\ ui_refresh.before.reference_data # <<>>
    /\ ui_refresh.at = ui_refresh.before.last_ref_update + 30 * 24
    /\ ui_refresh.fetches = <<"reference", "prices">>
    /\ ui_refresh.outcome.kind = "returned"
    /\ ui_refresh.outcome.payload[1].reference # ui_refresh.before.reference_data

\* the reference fetch of the refresh returned / raised
ReferenceReturned == ui_refresh.reference # <<>> /\ ui_refresh.reference[1].exc = "none"
ReferenceRaised == ui_refresh.reference # <<>> /\ ui_refresh.reference[1].exc # "none"

\* the cache is as it was when the refresh started
CacheAsBefore ==
    /\ reference_data = ui_refresh.before.reference_data
    /\ last_ref_update = ui_refresh.before.last_ref_update

\* During and after a refresh the cache is what the reference fetch of that
\* refresh returned, stamped with the time of the refresh, or else what it
\* was before; a price fetch that raised makes no difference.
CacheFollowsReference ==
    RefreshStarted =>
        IF ReferenceReturned
        THEN /\ reference_data = <<ui_refresh.reference[1].value>>
             /\ last_ref_update = ui_refresh.at
        ELSE CacheAsBefore

\* A step changes either part of the cache only as the reference fetch of a
\* refresh returns, and then sets both: the data to what was returned and
\* the time to the `now` of the refresh.
CacheChangesTogether ==
    (reference_data' # reference_data \/ last_ref_update' # last_ref_update) =>
        /\ ui_pc = "reference"
        /\ ui_pc' = "prices"
        /\ reference_data' # <<>>
        /\ last_ref_update' = ui_refresh.at

\* The refresh that starts after one whose reference fetch raised fetches
\* the reference data again.
TriesAgain ==
    (RefreshEnded /\ ReferenceRaised /\ ui_pc' # "idle") => ui_pc' = "reference"

\* C38: the cached reference data and _last_ref_update change only as the
\* reference fetch of a refresh succeeds, and then together; a reference
\* fetch that failed leaves both as they were, and the next refresh fetches
\* again; a price fetch that fails after the reference fetch succeeded rolls
\* nothing back.
C38_ReferenceFrame ==
    /\ []CacheFollowsReference
    /\ [][CacheChangesTogether /\ TriesAgain]_vars

\* C38 witness: a refresh replaced the cached reference data, then its price
\* fetch raised; the cache holds the new data and the new time.
C38_Witness ==
    /\ RefreshEnded
    /\ ReferenceReturned
    /\ ui_refresh.prices # <<>>
    /\ ui_refresh.prices[1].exc # "none"
    /\ ui_refresh.before.reference_data # <<>>
    /\ reference_data # ui_refresh.before.reference_data
    /\ last_ref_update = ui_refresh.at
    /\ last_ref_update # ui_refresh.before.last_ref_update

\* ---- concurrent calls of _async_request
\* the call of caller c has ended without sending a data request
EndedWithoutToken(c) ==
    /\ api_pc[c] = "idle"
    /\ api_call[c].gets # <<>>
    /\ DataRequestsSent(c) = {}

\* the call of caller c has ended after a 401 without sending the retry
EndedWithoutRetry(c) ==
    /\ api_pc[c] = "idle"
    /\ Cardinality(DataRequestsSent(c)) = 1
    /\ Unauthorized(c, FirstDataRequest(c))

EntriesHolding(es, nickname) ==
    { i \in DOMAIN es : nickname \in DOMAIN es[i].data.nicknames }

NicknamesStored(es) == UNION { DOMAIN es[i].data.nicknames : i \in DOMAIN es }

\* C33: every nickname is a key of the nicknames of at most one config
\* entry, and no two entries have the same unique id; a station selection
\* ends with CREATE_ENTRY only when, as it was submitted, no entry held the
\* nickname and no entry had the unique id made from the nickname, also
\* when another flow was open on station_select at the same time.
C33_OneEntryPerNickname ==
    /\ \A nickname \in NicknamesStored(entries) :
          Cardinality(EntriesHolding(entries, nickname)) = 1
    /\ \A i, j \in DOMAIN entries : entries[i].unique_id = entries[j].unique_id => i = j
    /\ (HandlerRan("station_select") /\ LastResult.type = "CREATE_ENTRY") =>
          /\ EntriesHolding(last.entries, SubmittedNickname) = {}
          /\ \A i \in DOMAIN last.entries :
                last.entries[i].unique_id # UniqueIdOf(SubmittedNickname)

\* C33 witness: a flow has created the entry of a nickname while another
\* flow for the same nickname and the default fuel had its station_select
\* form open; the form of that flow still offers a station the entry now
\* holds, which a form shown after the creation would not.
C33_Witness ==
    \E f, g \in Flows :
        /\ f # g
        /\ HandlerRan("station_select")
        /\ last.flow = f
        /\ flow[f].result.type = "CREATE_ENTRY"
        /\ flow[g].step = "station_select"
        /\ DefaultFuel(flow[g])
        /\ flow[g].flow_data.nickname = flow[f].flow_data.nickname
        /\ \E i \in DOMAIN flow[g].result.offered :
              flow[g].result.offered[i] \in
                  { st.station_code : st \in StoredUnder(entries, flow[f].flow_data.nickname) }

\* ---- claims about the sensors the stored entries lead to
\* `_attr_unique_id` of FuelPriceSensor: the domain, the station code, the
\* state and the fuel type; the nickname is no part of it
FavoriteUniqueId(station_code, au_state, fuel_type) ==
    <<DOMAIN_NAME, station_code, au_state, fuel_type>>

\* the favorite sensors the entries lead to: one for each entry, nickname,
\* station and fuel type, with its unique id
FavoriteSensorsOf(es) ==
    UNION { UNION { { [entry |-> i, nickname |-> n,
                       unique_id |-> FavoriteUniqueId(t[1], t[2], t[3])] :
                        t \in ExistingSensors(es[i].data.nicknames[n].stations) } :
                    n \in DOMAIN es[i].data.nicknames } :
            i \in DOMAIN es }

\* C34 as stated: no station code, state and fuel type is stored under two
\* nicknames or two entries, so that no two favorite sensors have the same
\* unique id.
C34_AsStated ==
    \A a, b \in FavoriteSensorsOf(entries) : a.unique_id = b.unique_id => a = b

\* ---- claims about the station records the flow writes
\* the last handler changed the config entries
EntriesWritten == HandlerRan("station_select") /\ entries # last.entries

\* the station records stored under the submitted nickname for the
\* submitted station codes: those the handler added or extended
RecordsWritten ==
    { st \in StoredUnder(entries, SubmittedNickname) :
        \E i \in DOMAIN SubmittedCodes :
            /\ st.station_code = SubmittedCodes[i]
            /\ st.au_state = LastFlow.station_lookup[SubmittedCodes[i]].au_state }

\* C35: when the flow has created or updated an entry, the selection it
\* submitted held a station code, every code of the selection has a station
\* record under the nickname, and each such record has a fuel_types list
\* that is not empty and holds the selected fuel type, so that the sensor
\* platform makes a sensor of it; no station record of any entry has an
\* empty fuel_types list.
C35_RecordsHaveFuel ==
    /\ EntriesWritten =>
          /\ SubmittedCodes # <<>>
          /\ \A i \in DOMAIN SubmittedCodes :
                \E st \in RecordsWritten : st.station_code = SubmittedCodes[i]
          /\ \A st \in RecordsWritten :
                /\ st.fuel_types # <<>>
                /\ SubmittedFuel \in Range(st.fuel_types)
                /\ FuelTypesOf(st) # <<>>
    /\ \A i \in DOMAIN entries : \A st \in EntryStations(entries[i]) :
          st.fuel_types # <<>>

\* C35 witness: an update added one station and gave another, which the
\* nickname held already, one more fuel type.
C35_Witness ==
    /\ EntriesWritten
    /\ LastResult.type = "ABORT"
    /\ LastResult.reason = "updated_existing"
    /\ \E st \in RecordsWritten :
          st.station_code \notin { b.station_code : b \in StoredUnder(last.entries, SubmittedNickname) }
    /\ \E st \in RecordsWritten : \E b \in StoredUnder(last.entries, SubmittedNickname) :
          /\ b.station_code = st.station_code
          /\ Len(st.fuel_types) > Len(b.fuel_types)

\* ---- claims about the two cheapest sensors of a nickname
\* the cheapest sensor of a nickname and rank among the entities added
CheapestSensorsOf(nickname, rank) ==
    { e \in Range(entities[1]) :
        e.class = "CheapestFuelPriceSensor" /\ e.device = nickname /\ e.rank = rank }

\* C36: whatever refreshes have returned or failed, a rank-2 cheapest
\* sensor reports a value only while the rank-1 sensor of its nickname
\* reports one, and the rank-1 value is then less than or equal to it.
C36_RanksInOrder ==
    SensorsAdded =>
        \A nickname \in ConfiguredNicknames :
            \A first \in CheapestSensorsOf(nickname, 1), second \in CheapestSensorsOf(nickname, 2) :
                CheapestNativeValue(second) # <<>> =>
                    /\ CheapestNativeValue(first) # <<>>
                    /\ CheapestNativeValue(first)[1] <= CheapestNativeValue(second)[1]

\* C36 witness: a refresh has failed after one that returned, and the two
\* cheapest sensors of a nickname still report two different prices, the
\* lower one at rank 1.
C36_Witness ==
    /\ SensorsAdded
    /\ outcome.kind \notin {"none", "returned"}
    /\ \E nickname \in ConfiguredNicknames :
          \E first \in CheapestSensorsOf(nickname, 1), second \in CheapestSensorsOf(nickname, 2) :
              /\ CheapestNativeValue(second) # <<>>
              /\ CheapestNativeValue(first) # <<>>
              /\ CheapestNativeValue(first)[1] < CheapestNativeValue(second)[1]

\* ---- claims about setup and unload
\* the entry is set up: its platforms are loaded
IsSetUp(e) == entry_state[e] \in {"loaded", "failed_unload"}

\* C37 as stated: hass.data[DOMAIN] holds a coordinator under an entry id
\* exactly while the entry is set up; it holds none before the setup, after
\* a setup whose first refresh raised ConfigEntryNotReady, after an unload
\* whose platforms unloaded, and after async_remove_entry.
C37_AsStated ==
    \A e \in EntryIds : (e \in hass_data) <=> IsSetUp(e)

\* ------------------------- the multi-station coordinator: coordinator.py
\* coordinator.stations, the station codes of the entry
MultiStations == <<350, 351>>

\* what get_fuel_prices_for_station returns: Price objects, whose price may
\* be None
MultiPriceLists ==
    { <<>>,
      << Price("U91", <<150>>) >>,
      << Price("U91", <<152>>), Price("E10", <<140>>) >>,
      << Price("E10", <<145>>), Price("DL", <<>>) >> }

MultiResults == { Returns(l) : l \in MultiPriceLists } \cup ApiErrors

\* the Price objects the refresh keeps: `price.price is not None and
\* price.fuel_type`
KeptPrices(price_list) ==
    { i \in DOMAIN price_list : price_list[i].price # <<>> /\ price_list[i].fuel_type # "" }

\* all_prices as the loop of _async_update_data fills it from the results
\* of the stations
AllPrices(results) ==
    LET keys == UNION { { <<MultiStations[n], results[n].value[i].fuel_type>> :
                            i \in KeptPrices(results[n].value) } : n \in DOMAIN results }
    IN  [ key \in keys |->
            LET of == CHOOSE n \in DOMAIN results : MultiStations[n] = key[1]
                price_list == results[of].value
                latest == CHOOSE i \in KeptPrices(price_list) :
                            /\ price_list[i].fuel_type = key[2]
                            /\ \A j \in KeptPrices(price_list) :
                                  price_list[j].fuel_type = key[2] => j <= i
            IN  price_list[latest].price[1] ]

\* the index of the first station whose fetch raised, 0 if none did
FirstRaised(results) ==
    IF \A n \in DOMAIN results : results[n].exc = "none" THEN 0
    ELSE CHOOSE n \in DOMAIN results :
            /\ results[n].exc # "none"
            /\ \A m \in DOMAIN results : results[m].exc # "none" => n <= m

\* how _async_update_data ends
MultiOutcome(results) ==
    IF FirstRaised(results) = 0 THEN "returned"
    ELSE IF results[FirstRaised(results)].exc = "NSWFuelApiClientAuthError"
         THEN "ConfigEntryAuthFailed"
         ELSE "UpdateFailed"

\* the fetches that ran: the loop stops at the first one that raised
FetchesRun(results) ==
    IF FirstRaised(results) = 0 THEN results ELSE Take(results, FirstRaised(results))

\* self.prices after a refresh that returned: _async_update_data fills the
\* local all_prices and returns it in StationPriceData; it assigns nothing
\* to self.prices
PricesAfterRefresh(results) == self_prices

\* get_station_fuel_types(station_code)
GetStationFuelTypes(dict, station_code) ==
    SortedFuels({ key[2] : key \in { k \in DOMAIN dict : k[1] = station_code } })

\* get_price(station_code, fuel_type): Optional
GetPrice(dict, station_code, fuel_type) ==
    IF <<station_code, fuel_type>> \in DOMAIN dict
    THEN << dict[<<station_code, fuel_type>>] >> ELSE <<>>

\* the sensors of one station, one per fuel type the coordinator lists
RECURSIVE SensorsOfStation(_, _)
SensorsOfStation(station_code, fuel_types) ==
    IF fuel_types = <<>> THEN <<>>
    ELSE << [station_code |-> station_code, fuel_type |-> Head(fuel_types)] >>
         \o SensorsOfStation(station_code, Tail(fuel_types))

\* the loop of async_setup_entry of sensor.py over coordinator.stations
RECURSIVE MultiSensors(_, _)
MultiSensors(dict, stations) ==
    IF stations = <<>> THEN <<>>
    ELSE SensorsOfStation(Head(stations), GetStationFuelTypes(dict, Head(stations)))
         \o MultiSensors(dict, Tail(stations))

\* the effect of _async_update_data on the coordinator
MultiUpdateData(results) ==
    /\ multi_refresh' = [results |-> FetchesRun(results), outcome |-> MultiOutcome(results)]
    /\ IF MultiOutcome(results) = "returned"
       THEN /\ multi_data' = << [prices |-> AllPrices(results)] >>
            /\ self_prices' = PricesAfterRefresh(results)
       ELSE UNCHANGED <<multi_data, self_prices>>

\* The host refreshes the coordinator.
MultiRefresh ==
    /\ multi_sensors # <<>>
    /\ \E results \in [DOMAIN MultiStations -> MultiResults] : MultiUpdateData(results)
    /\ UNCHANGED <<multi_sensors, coordVars, flowVars, sensorVars, clientVars, uiVars,
                   setupVars>>

\* async_setup_entry of sensor.py: the first refresh, then one sensor for
\* each station and each fuel type get_station_fuel_types lists.
MultiSensorSetup ==
    /\ multi_sensors = <<>>
    /\ \E results \in [DOMAIN MultiStations -> MultiResults] :
        /\ MultiUpdateData(results)
        /\ multi_sensors' =
              IF MultiOutcome(results) = "returned"
              THEN << MultiSensors(self_prices', MultiStations) >>
              ELSE <<>>
    /\ UNCHANGED <<coordVars, flowVars, sensorVars, clientVars, uiVars, setupVars>>

NextMulti ==
    \/ MultiSensorSetup
    \/ MultiRefresh

SpecMulti == InitApi /\ [][NextMulti]_vars

\* ---- claims about the multi-station coordinator
\* the refresh fetched price p for station s and fuel type f
FetchedPrices ==
    UNION { { << MultiStations[n], multi_refresh.results[n].value[i].fuel_type,
                 multi_refresh.results[n].value[i].price[1] >> :
                i \in { j \in DOMAIN multi_refresh.results[n].value :
                          multi_refresh.results[n].value[j].price # <<>> } } :
            n \in DOMAIN multi_refresh.results }

\* C32 as stated: after a refresh that returned and had fetched price p for
\* station s and fuel type f, get_price(s, f) is p and
\* get_station_fuel_types(s) lists f; the sensors set up are one per
\* station and fuel type with a price.
C32_AsStated ==
    multi_refresh.outcome = "returned" =>
        /\ \A t \in FetchedPrices :
              /\ GetPrice(self_prices, t[1], t[2]) = << t[3] >>
              /\ \E i \in DOMAIN GetStationFuelTypes(self_prices, t[1]) :
                    GetStationFuelTypes(self_prices, t[1])[i] = t[2]
        /\ multi_sensors # <<>> =>
              { <<t[1], t[2]>> : t \in FetchedPrices } \subseteq
                  { <<multi_sensors[1][i].station_code, multi_sensors[1][i].fuel_type>> :
                      i \in DOMAIN multi_sensors[1] }

\* ------------------------------------------- flows after an earlier flow
\* The flow of an earlier user at the moment it submitted its selection:
\* nickname Work in Hobart, fuel type DL, one nearby station.
EarlierFlow ==
    GotStationList(
        [NewFlow EXCEPT !.flow_data =
            [@ EXCEPT !.client_id = "id0", !.client_secret = "secret0",
                      !.nickname = Work, !.fuel_type = "DL",
                      !.nicknames = DictSet(EmptyDict, Work,
                            [location |-> StoredLocation(<<-4288000, 14732000>>)])]],
        << StationPrice(StationD, "DL", 170) >>)

\* hass.config_entries after that flow
EarlierEntries ==
    CreateNewConfigEntry(EarlierFlow, <<>>, Work, <<StationD.code>>, "DL").entries

InitStored ==
    /\ hass_config \in HomeZones
    /\ entries = EarlierEntries
    /\ flow = [f \in Flows |-> NewFlow]
    /\ last = NoHandler
    /\ advanced_submissions = 0
    /\ config_nicknames = <<>>
    /\ init_error = ""
    /\ station_keys = {}
    /\ nickname_locations = <<>>
    /\ pc = "idle"
    /\ todo_keys = {}
    /\ favorites = EmptyDict
    /\ nick_idx = 1
    /\ default_nearby = <<>>
    /\ cheapest = EmptyDict
    /\ outcome = NoOutcome
    /\ data = <<>>
    /\ calls = <<>>
    /\ entities = <<>>
    /\ ApiClientInit
    /\ UiCoordinatorInit
    /\ NothingSetUp
    /\ MultiStationInit

SpecStored == InitStored /\ [][Next]_vars

\* The entry the last handler looked up for the submitted nickname.
UpdatedIndex == UpdatingEntry(last.entries, SubmittedNickname)

\* The location the flow of the last handler validated for its nickname.
ValidatedLocation == LastFlow.flow_data.nicknames[SubmittedNickname].location

====
